---- MODULE Spec2Model ----
(***************************************************************************)
(* Model of evaluate_simulink_image.py: a command-line client that sends   *)
(* one or two images to a chat-completion endpoint and extracts a score    *)
(* from the textual answer.                                                *)
(*                                                                         *)
(* Texts are sequences of Unicode code points, so that the regular         *)
(* expressions of the program are modelled character by character.         *)
(* An optional value (Python None or a value) is a sequence of length 0    *)
(* or 1.                                                                   *)
(***************************************************************************)
EXTENDS Integers, Sequences, FiniteSets, TLC

\* ------------------------------------------------------------------------
\* Bounds of the model
\* ------------------------------------------------------------------------
\* number of fragments a primary response text is built from
MaxFrags == 3
\* number of fragments a clarification reply text is built from
MaxClarFrags == 3

\* ------------------------------------------------------------------------
\* Characters (code points) that occur in the patterns and in the inputs
\* ------------------------------------------------------------------------
SPACE == 32
SLASH == 47
ZERO == 48
ONE == 49
COLON == 58
KATAKANA_SU == 12473
KATAKANA_KO == 12467
KATAKANA_A == 12450
KANJI_HYOU == 35413
KANJI_KA == 20385
KANJI_TEN == 28857
FULLWIDTH_SLASH == 65295
FULLWIDTH_COLON == 65306

\* the literals of the four alternatives of the primary pattern
LabelScore == <<KATAKANA_SU, KATAKANA_KO, KATAKANA_A>>
LabelEvaluation == <<KANJI_HYOU, KANJI_KA>>
Hundred == <<ONE, ZERO, ZERO>>

\* ------------------------------------------------------------------------
\* Character classes of Python's re module on str patterns
\* ------------------------------------------------------------------------
\* [0-9]: ASCII digits only
IsDigit(c) == c \in 48..57

\* \w and \b of a str pattern: the code points that are alphanumeric in
\* Unicode (str.isalnum) or the underscore.  The table gives, for each block
\* of 256 code points from U+0000 on, the inclusive ranges of such code
\* points in the block; there is none after the last block of the table.
WordRangesByBlock == <<
    {<<48, 57>>, <<65, 90>>, <<95, 95>>, <<97, 122>>, <<170, 170>>, <<178, 179>>, <<181, 181>>, <<185, 186>>, <<188, 190>>, <<192, 214>>, <<216, 246>>, <<248, 255>>},
    {<<256, 511>>},
    {<<512, 705>>, <<710, 721>>, <<736, 740>>, <<748, 748>>, <<750, 750>>},
    {<<880, 884>>, <<886, 887>>, <<890, 893>>, <<895, 895>>, <<902, 902>>, <<904, 906>>, <<908, 908>>, <<910, 929>>, <<931, 1013>>, <<1015, 1023>>},
    {<<1024, 1153>>, <<1162, 1279>>},
    {<<1280, 1327>>, <<1329, 1366>>, <<1369, 1369>>, <<1376, 1416>>, <<1488, 1514>>, <<1519, 1522>>},
    {<<1568, 1610>>, <<1632, 1641>>, <<1646, 1647>>, <<1649, 1747>>, <<1749, 1749>>, <<1765, 1766>>, <<1774, 1788>>, <<1791, 1791>>},
    {<<1808, 1808>>, <<1810, 1839>>, <<1869, 1957>>, <<1969, 1969>>, <<1984, 2026>>, <<2036, 2037>>, <<2042, 2042>>},
    {<<2048, 2069>>, <<2074, 2074>>, <<2084, 2084>>, <<2088, 2088>>, <<2112, 2136>>, <<2144, 2154>>, <<2160, 2183>>, <<2185, 2190>>, <<2208, 2249>>},
    {<<2308, 2361>>, <<2365, 2365>>, <<2384, 2384>>, <<2392, 2401>>, <<2406, 2415>>, <<2417, 2432>>, <<2437, 2444>>, <<2447, 2448>>, <<2451, 2472>>, <<2474, 2480>>, <<2482, 2482>>, <<2486, 2489>>, <<2493, 2493>>, <<2510, 2510>>, <<2524, 2525>>, <<2527, 2529>>, <<2534, 2545>>, <<2548, 2553>>, <<2556, 2556>>},
    {<<2565, 2570>>, <<2575, 2576>>, <<2579, 2600>>, <<2602, 2608>>, <<2610, 2611>>, <<2613, 2614>>, <<2616, 2617>>, <<2649, 2652>>, <<2654, 2654>>, <<2662, 2671>>, <<2674, 2676>>, <<2693, 2701>>, <<2703, 2705>>, <<2707, 2728>>, <<2730, 2736>>, <<2738, 2739>>, <<2741, 2745>>, <<2749, 2749>>, <<2768, 2768>>, <<2784, 2785>>, <<2790, 2799>>, <<2809, 2809>>},
    {<<2821, 2828>>, <<2831, 2832>>, <<2835, 2856>>, <<2858, 2864>>, <<2866, 2867>>, <<2869, 2873>>, <<2877, 2877>>, <<2908, 2909>>, <<2911, 2913>>, <<2918, 2927>>, <<2929, 2935>>, <<2947, 2947>>, <<2949, 2954>>, <<2958, 2960>>, <<2962, 2965>>, <<2969, 2970>>, <<2972, 2972>>, <<2974, 2975>>, <<2979, 2980>>, <<2984, 2986>>, <<2990, 3001>>, <<3024, 3024>>, <<3046, 3058>>},
    {<<3077, 3084>>, <<3086, 3088>>, <<3090, 3112>>, <<3114, 3129>>, <<3133, 3133>>, <<3160, 3162>>, <<3165, 3165>>, <<3168, 3169>>, <<3174, 3183>>, <<3192, 3198>>, <<3200, 3200>>, <<3205, 3212>>, <<3214, 3216>>, <<3218, 3240>>, <<3242, 3251>>, <<3253, 3257>>, <<3261, 3261>>, <<3293, 3294>>, <<3296, 3297>>, <<3302, 3311>>, <<3313, 3314>>},
    {<<3332, 3340>>, <<3342, 3344>>, <<3346, 3386>>, <<3389, 3389>>, <<3406, 3406>>, <<3412, 3414>>, <<3416, 3425>>, <<3430, 3448>>, <<3450, 3455>>, <<3461, 3478>>, <<3482, 3505>>, <<3507, 3515>>, <<3517, 3517>>, <<3520, 3526>>, <<3558, 3567>>},
    {<<3585, 3632>>, <<3634, 3635>>, <<3648, 3654>>, <<3664, 3673>>, <<3713, 3714>>, <<3716, 3716>>, <<3718, 3722>>, <<3724, 3747>>, <<3749, 3749>>, <<3751, 3760>>, <<3762, 3763>>, <<3773, 3773>>, <<3776, 3780>>, <<3782, 3782>>, <<3792, 3801>>, <<3804, 3807>>},
    {<<3840, 3840>>, <<3872, 3891>>, <<3904, 3911>>, <<3913, 3948>>, <<3976, 3980>>},
    {<<4096, 4138>>, <<4159, 4169>>, <<4176, 4181>>, <<4186, 4189>>, <<4193, 4193>>, <<4197, 4198>>, <<4206, 4208>>, <<4213, 4225>>, <<4238, 4238>>, <<4240, 4249>>, <<4256, 4293>>, <<4295, 4295>>, <<4301, 4301>>, <<4304, 4346>>, <<4348, 4351>>},
    {<<4352, 4607>>},
    {<<4608, 4680>>, <<4682, 4685>>, <<4688, 4694>>, <<4696, 4696>>, <<4698, 4701>>, <<4704, 4744>>, <<4746, 4749>>, <<4752, 4784>>, <<4786, 4789>>, <<4792, 4798>>, <<4800, 4800>>, <<4802, 4805>>, <<4808, 4822>>, <<4824, 4863>>},
    {<<4864, 4880>>, <<4882, 4885>>, <<4888, 4954>>, <<4969, 4988>>, <<4992, 5007>>, <<5024, 5109>>, <<5112, 5117>>},
    {<<5121, 5375>>}, {<<5376, 5631>>},
    {<<5632, 5740>>, <<5743, 5759>>, <<5761, 5786>>, <<5792, 5866>>, <<5870, 5880>>},
    {<<5888, 5905>>, <<5919, 5937>>, <<5952, 5969>>, <<5984, 5996>>, <<5998, 6000>>, <<6016, 6067>>, <<6103, 6103>>, <<6108, 6108>>, <<6112, 6121>>, <<6128, 6137>>},
    {<<6160, 6169>>, <<6176, 6264>>, <<6272, 6276>>, <<6279, 6312>>, <<6314, 6314>>, <<6320, 6389>>},
    {<<6400, 6430>>, <<6470, 6509>>, <<6512, 6516>>, <<6528, 6571>>, <<6576, 6601>>, <<6608, 6618>>},
    {<<6656, 6678>>, <<6688, 6740>>, <<6784, 6793>>, <<6800, 6809>>, <<6823, 6823>>},
    {<<6917, 6963>>, <<6981, 6988>>, <<6992, 7001>>, <<7043, 7072>>, <<7086, 7141>>},
    {<<7168, 7203>>, <<7232, 7241>>, <<7245, 7293>>, <<7296, 7304>>, <<7312, 7354>>, <<7357, 7359>>, <<7401, 7404>>, <<7406, 7411>>, <<7413, 7414>>, <<7418, 7418>>},
    {<<7424, 7615>>}, {<<7680, 7935>>},
    {<<7936, 7957>>, <<7960, 7965>>, <<7968, 8005>>, <<8008, 8013>>, <<8016, 8023>>, <<8025, 8025>>, <<8027, 8027>>, <<8029, 8029>>, <<8031, 8061>>, <<8064, 8116>>, <<8118, 8124>>, <<8126, 8126>>, <<8130, 8132>>, <<8134, 8140>>, <<8144, 8147>>, <<8150, 8155>>, <<8160, 8172>>, <<8178, 8180>>, <<8182, 8188>>},
    {<<8304, 8305>>, <<8308, 8313>>, <<8319, 8329>>, <<8336, 8348>>},
    {<<8450, 8450>>, <<8455, 8455>>, <<8458, 8467>>, <<8469, 8469>>, <<8473, 8477>>, <<8484, 8484>>, <<8486, 8486>>, <<8488, 8488>>, <<8490, 8493>>, <<8495, 8505>>, <<8508, 8511>>, <<8517, 8521>>, <<8526, 8526>>, <<8528, 8585>>},
    {}, {}, {<<9312, 9371>>, <<9450, 9471>>}, {}, {}, {<<10102, 10131>>}, {},
    {}, {}, {},
    {<<11264, 11492>>, <<11499, 11502>>, <<11506, 11507>>, <<11517, 11517>>},
    {<<11520, 11557>>, <<11559, 11559>>, <<11565, 11565>>, <<11568, 11623>>, <<11631, 11631>>, <<11648, 11670>>, <<11680, 11686>>, <<11688, 11694>>, <<11696, 11702>>, <<11704, 11710>>, <<11712, 11718>>, <<11720, 11726>>, <<11728, 11734>>, <<11736, 11742>>},
    {<<11823, 11823>>}, {},
    {<<12293, 12295>>, <<12321, 12329>>, <<12337, 12341>>, <<12344, 12348>>, <<12353, 12438>>, <<12445, 12447>>, <<12449, 12538>>, <<12540, 12543>>},
    {<<12549, 12591>>, <<12593, 12686>>, <<12690, 12693>>, <<12704, 12735>>, <<12784, 12799>>},
    {<<12832, 12841>>, <<12872, 12879>>, <<12881, 12895>>, <<12928, 12937>>, <<12977, 12991>>},
    {}, {<<13312, 13567>>}, {<<13568, 13823>>}, {<<13824, 14079>>},
    {<<14080, 14335>>}, {<<14336, 14591>>}, {<<14592, 14847>>},
    {<<14848, 15103>>}, {<<15104, 15359>>}, {<<15360, 15615>>},
    {<<15616, 15871>>}, {<<15872, 16127>>}, {<<16128, 16383>>},
    {<<16384, 16639>>}, {<<16640, 16895>>}, {<<16896, 17151>>},
    {<<17152, 17407>>}, {<<17408, 17663>>}, {<<17664, 17919>>},
    {<<17920, 18175>>}, {<<18176, 18431>>}, {<<18432, 18687>>},
    {<<18688, 18943>>}, {<<18944, 19199>>}, {<<19200, 19455>>},
    {<<19456, 19711>>}, {<<19712, 19903>>}, {<<19968, 20223>>},
    {<<20224, 20479>>}, {<<20480, 20735>>}, {<<20736, 20991>>},
    {<<20992, 21247>>}, {<<21248, 21503>>}, {<<21504, 21759>>},
    {<<21760, 22015>>}, {<<22016, 22271>>}, {<<22272, 22527>>},
    {<<22528, 22783>>}, {<<22784, 23039>>}, {<<23040, 23295>>},
    {<<23296, 23551>>}, {<<23552, 23807>>}, {<<23808, 24063>>},
    {<<24064, 24319>>}, {<<24320, 24575>>}, {<<24576, 24831>>},
    {<<24832, 25087>>}, {<<25088, 25343>>}, {<<25344, 25599>>},
    {<<25600, 25855>>}, {<<25856, 26111>>}, {<<26112, 26367>>},
    {<<26368, 26623>>}, {<<26624, 26879>>}, {<<26880, 27135>>},
    {<<27136, 27391>>}, {<<27392, 27647>>}, {<<27648, 27903>>},
    {<<27904, 28159>>}, {<<28160, 28415>>}, {<<28416, 28671>>},
    {<<28672, 28927>>}, {<<28928, 29183>>}, {<<29184, 29439>>},
    {<<29440, 29695>>}, {<<29696, 29951>>}, {<<29952, 30207>>},
    {<<30208, 30463>>}, {<<30464, 30719>>}, {<<30720, 30975>>},
    {<<30976, 31231>>}, {<<31232, 31487>>}, {<<31488, 31743>>},
    {<<31744, 31999>>}, {<<32000, 32255>>}, {<<32256, 32511>>},
    {<<32512, 32767>>}, {<<32768, 33023>>}, {<<33024, 33279>>},
    {<<33280, 33535>>}, {<<33536, 33791>>}, {<<33792, 34047>>},
    {<<34048, 34303>>}, {<<34304, 34559>>}, {<<34560, 34815>>},
    {<<34816, 35071>>}, {<<35072, 35327>>}, {<<35328, 35583>>},
    {<<35584, 35839>>}, {<<35840, 36095>>}, {<<36096, 36351>>},
    {<<36352, 36607>>}, {<<36608, 36863>>}, {<<36864, 37119>>},
    {<<37120, 37375>>}, {<<37376, 37631>>}, {<<37632, 37887>>},
    {<<37888, 38143>>}, {<<38144, 38399>>}, {<<38400, 38655>>},
    {<<38656, 38911>>}, {<<38912, 39167>>}, {<<39168, 39423>>},
    {<<39424, 39679>>}, {<<39680, 39935>>}, {<<39936, 40191>>},
    {<<40192, 40447>>}, {<<40448, 40703>>}, {<<40704, 40959>>},
    {<<40960, 41215>>}, {<<41216, 41471>>}, {<<41472, 41727>>},
    {<<41728, 41983>>}, {<<41984, 42124>>, <<42192, 42237>>},
    {<<42240, 42495>>},
    {<<42496, 42508>>, <<42512, 42539>>, <<42560, 42606>>, <<42623, 42653>>, <<42656, 42735>>},
    {<<42775, 42783>>, <<42786, 42888>>, <<42891, 42954>>, <<42960, 42961>>, <<42963, 42963>>, <<42965, 42969>>, <<42994, 43007>>},
    {<<43008, 43009>>, <<43011, 43013>>, <<43015, 43018>>, <<43020, 43042>>, <<43056, 43061>>, <<43072, 43123>>, <<43138, 43187>>, <<43216, 43225>>, <<43250, 43255>>, <<43259, 43259>>, <<43261, 43262>>},
    {<<43264, 43301>>, <<43312, 43334>>, <<43360, 43388>>, <<43396, 43442>>, <<43471, 43481>>, <<43488, 43492>>, <<43494, 43518>>},
    {<<43520, 43560>>, <<43584, 43586>>, <<43588, 43595>>, <<43600, 43609>>, <<43616, 43638>>, <<43642, 43642>>, <<43646, 43695>>, <<43697, 43697>>, <<43701, 43702>>, <<43705, 43709>>, <<43712, 43712>>, <<43714, 43714>>, <<43739, 43741>>, <<43744, 43754>>, <<43762, 43764>>},
    {<<43777, 43782>>, <<43785, 43790>>, <<43793, 43798>>, <<43808, 43814>>, <<43816, 43822>>, <<43824, 43866>>, <<43868, 43881>>, <<43888, 44002>>, <<44016, 44025>>},
    {<<44032, 44287>>}, {<<44288, 44543>>}, {<<44544, 44799>>},
    {<<44800, 45055>>}, {<<45056, 45311>>}, {<<45312, 45567>>},
    {<<45568, 45823>>}, {<<45824, 46079>>}, {<<46080, 46335>>},
    {<<46336, 46591>>}, {<<46592, 46847>>}, {<<46848, 47103>>},
    {<<47104, 47359>>}, {<<47360, 47615>>}, {<<47616, 47871>>},
    {<<47872, 48127>>}, {<<48128, 48383>>}, {<<48384, 48639>>},
    {<<48640, 48895>>}, {<<48896, 49151>>}, {<<49152, 49407>>},
    {<<49408, 49663>>}, {<<49664, 49919>>}, {<<49920, 50175>>},
    {<<50176, 50431>>}, {<<50432, 50687>>}, {<<50688, 50943>>},
    {<<50944, 51199>>}, {<<51200, 51455>>}, {<<51456, 51711>>},
    {<<51712, 51967>>}, {<<51968, 52223>>}, {<<52224, 52479>>},
    {<<52480, 52735>>}, {<<52736, 52991>>}, {<<52992, 53247>>},
    {<<53248, 53503>>}, {<<53504, 53759>>}, {<<53760, 54015>>},
    {<<54016, 54271>>}, {<<54272, 54527>>}, {<<54528, 54783>>},
    {<<54784, 55039>>},
    {<<55040, 55203>>, <<55216, 55238>>, <<55243, 55291>>}, {}, {}, {}, {},
    {}, {}, {}, {}, {}, {}, {}, {}, {}, {}, {}, {}, {}, {}, {}, {}, {}, {},
    {}, {}, {}, {}, {}, {}, {}, {}, {}, {}, {}, {<<63744, 63999>>},
    {<<64000, 64109>>, <<64112, 64217>>},
    {<<64256, 64262>>, <<64275, 64279>>, <<64285, 64285>>, <<64287, 64296>>, <<64298, 64310>>, <<64312, 64316>>, <<64318, 64318>>, <<64320, 64321>>, <<64323, 64324>>, <<64326, 64433>>, <<64467, 64511>>},
    {<<64512, 64767>>},
    {<<64768, 64829>>, <<64848, 64911>>, <<64914, 64967>>, <<65008, 65019>>},
    {<<65136, 65140>>, <<65142, 65276>>},
    {<<65296, 65305>>, <<65313, 65338>>, <<65345, 65370>>, <<65382, 65470>>, <<65474, 65479>>, <<65482, 65487>>, <<65490, 65495>>, <<65498, 65500>>},
    {<<65536, 65547>>, <<65549, 65574>>, <<65576, 65594>>, <<65596, 65597>>, <<65599, 65613>>, <<65616, 65629>>, <<65664, 65786>>},
    {<<65799, 65843>>, <<65856, 65912>>, <<65930, 65931>>},
    {<<66176, 66204>>, <<66208, 66256>>, <<66273, 66299>>},
    {<<66304, 66339>>, <<66349, 66378>>, <<66384, 66421>>, <<66432, 66461>>, <<66464, 66499>>, <<66504, 66511>>, <<66513, 66517>>},
    {<<66560, 66717>>, <<66720, 66729>>, <<66736, 66771>>, <<66776, 66811>>},
    {<<66816, 66855>>, <<66864, 66915>>, <<66928, 66938>>, <<66940, 66954>>, <<66956, 66962>>, <<66964, 66965>>, <<66967, 66977>>, <<66979, 66993>>, <<66995, 67001>>, <<67003, 67004>>},
    {<<67072, 67327>>},
    {<<67328, 67382>>, <<67392, 67413>>, <<67424, 67431>>, <<67456, 67461>>, <<67463, 67504>>, <<67506, 67514>>},
    {<<67584, 67589>>, <<67592, 67592>>, <<67594, 67637>>, <<67639, 67640>>, <<67644, 67644>>, <<67647, 67669>>, <<67672, 67702>>, <<67705, 67742>>, <<67751, 67759>>, <<67808, 67826>>, <<67828, 67829>>, <<67835, 67839>>},
    {<<67840, 67867>>, <<67872, 67897>>, <<67968, 68023>>, <<68028, 68047>>, <<68050, 68095>>},
    {<<68096, 68096>>, <<68112, 68115>>, <<68117, 68119>>, <<68121, 68149>>, <<68160, 68168>>, <<68192, 68222>>, <<68224, 68255>>, <<68288, 68295>>, <<68297, 68324>>, <<68331, 68335>>},
    {<<68352, 68405>>, <<68416, 68437>>, <<68440, 68466>>, <<68472, 68497>>, <<68521, 68527>>},
    {<<68608, 68680>>, <<68736, 68786>>, <<68800, 68850>>, <<68858, 68863>>},
    {<<68864, 68899>>, <<68912, 68921>>},
    {<<69216, 69246>>, <<69248, 69289>>, <<69296, 69297>>},
    {<<69376, 69415>>, <<69424, 69445>>, <<69457, 69460>>, <<69488, 69505>>, <<69552, 69579>>, <<69600, 69622>>},
    {<<69635, 69687>>, <<69714, 69743>>, <<69745, 69746>>, <<69749, 69749>>, <<69763, 69807>>, <<69840, 69864>>, <<69872, 69881>>},
    {<<69891, 69926>>, <<69942, 69951>>, <<69956, 69956>>, <<69959, 69959>>, <<69968, 70002>>, <<70006, 70006>>, <<70019, 70066>>, <<70081, 70084>>, <<70096, 70106>>, <<70108, 70108>>, <<70113, 70132>>},
    {<<70144, 70161>>, <<70163, 70187>>, <<70272, 70278>>, <<70280, 70280>>, <<70282, 70285>>, <<70287, 70301>>, <<70303, 70312>>, <<70320, 70366>>, <<70384, 70393>>},
    {<<70405, 70412>>, <<70415, 70416>>, <<70419, 70440>>, <<70442, 70448>>, <<70450, 70451>>, <<70453, 70457>>, <<70461, 70461>>, <<70480, 70480>>, <<70493, 70497>>},
    {<<70656, 70708>>, <<70727, 70730>>, <<70736, 70745>>, <<70751, 70753>>, <<70784, 70831>>, <<70852, 70853>>, <<70855, 70855>>, <<70864, 70873>>},
    {<<71040, 71086>>, <<71128, 71131>>},
    {<<71168, 71215>>, <<71236, 71236>>, <<71248, 71257>>, <<71296, 71338>>, <<71352, 71352>>, <<71360, 71369>>},
    {<<71424, 71450>>, <<71472, 71483>>, <<71488, 71494>>},
    {<<71680, 71723>>, <<71840, 71922>>, <<71935, 71935>>},
    {<<71936, 71942>>, <<71945, 71945>>, <<71948, 71955>>, <<71957, 71958>>, <<71960, 71983>>, <<71999, 71999>>, <<72001, 72001>>, <<72016, 72025>>, <<72096, 72103>>, <<72106, 72144>>, <<72161, 72161>>, <<72163, 72163>>},
    {<<72192, 72192>>, <<72203, 72242>>, <<72250, 72250>>, <<72272, 72272>>, <<72284, 72329>>, <<72349, 72349>>, <<72368, 72440>>},
    {},
    {<<72704, 72712>>, <<72714, 72750>>, <<72768, 72768>>, <<72784, 72812>>, <<72818, 72847>>},
    {<<72960, 72966>>, <<72968, 72969>>, <<72971, 73008>>, <<73030, 73030>>, <<73040, 73049>>, <<73056, 73061>>, <<73063, 73064>>, <<73066, 73097>>, <<73112, 73112>>, <<73120, 73129>>},
    {<<73440, 73458>>}, {<<73648, 73648>>, <<73664, 73684>>},
    {<<73728, 73983>>}, {<<73984, 74239>>}, {<<74240, 74495>>},
    {<<74496, 74649>>}, {<<74752, 74862>>, <<74880, 75007>>},
    {<<75008, 75075>>}, {}, {}, {}, {}, {}, {}, {}, {}, {},
    {<<77712, 77808>>}, {<<77824, 78079>>}, {<<78080, 78335>>},
    {<<78336, 78591>>}, {<<78592, 78847>>}, {<<78848, 78894>>}, {}, {}, {},
    {}, {}, {}, {}, {}, {}, {}, {}, {}, {}, {}, {}, {<<82944, 83199>>},
    {<<83200, 83455>>}, {<<83456, 83526>>}, {}, {}, {}, {}, {}, {}, {}, {},
    {}, {}, {}, {}, {}, {}, {}, {}, {}, {}, {}, {}, {}, {}, {}, {}, {}, {},
    {}, {}, {}, {}, {}, {}, {}, {<<92160, 92415>>}, {<<92416, 92671>>},
    {<<92672, 92728>>, <<92736, 92766>>, <<92768, 92777>>, <<92784, 92862>>, <<92864, 92873>>, <<92880, 92909>>},
    {<<92928, 92975>>, <<92992, 92995>>, <<93008, 93017>>, <<93019, 93025>>, <<93027, 93047>>, <<93053, 93071>>},
    {}, {}, {<<93760, 93846>>},
    {<<93952, 94026>>, <<94032, 94032>>, <<94099, 94111>>, <<94176, 94177>>, <<94179, 94179>>},
    {<<94208, 94463>>}, {<<94464, 94719>>}, {<<94720, 94975>>},
    {<<94976, 95231>>}, {<<95232, 95487>>}, {<<95488, 95743>>},
    {<<95744, 95999>>}, {<<96000, 96255>>}, {<<96256, 96511>>},
    {<<96512, 96767>>}, {<<96768, 97023>>}, {<<97024, 97279>>},
    {<<97280, 97535>>}, {<<97536, 97791>>}, {<<97792, 98047>>},
    {<<98048, 98303>>}, {<<98304, 98559>>}, {<<98560, 98815>>},
    {<<98816, 99071>>}, {<<99072, 99327>>}, {<<99328, 99583>>},
    {<<99584, 99839>>}, {<<99840, 100095>>}, {<<100096, 100343>>},
    {<<100352, 100607>>}, {<<100608, 100863>>}, {<<100864, 101119>>},
    {<<101120, 101375>>}, {<<101376, 101589>>}, {<<101632, 101640>>}, {}, {},
    {}, {}, {}, {}, {}, {}, {}, {}, {}, {}, {}, {}, {}, {}, {}, {}, {}, {},
    {}, {}, {}, {}, {}, {}, {}, {}, {}, {}, {}, {}, {},
    {<<110576, 110579>>, <<110581, 110587>>, <<110589, 110590>>},
    {<<110592, 110847>>},
    {<<110848, 110882>>, <<110928, 110930>>, <<110948, 110951>>, <<110960, 111103>>},
    {<<111104, 111355>>}, {}, {}, {}, {}, {}, {}, {}, {}, {},
    {<<113664, 113770>>, <<113776, 113788>>, <<113792, 113800>>, <<113808, 113817>>},
    {}, {}, {}, {}, {}, {}, {}, {}, {}, {}, {}, {}, {}, {}, {}, {}, {}, {},
    {}, {}, {}, {<<119520, 119539>>}, {<<119648, 119672>>},
    {<<119808, 119892>>, <<119894, 119964>>, <<119966, 119967>>, <<119970, 119970>>, <<119973, 119974>>, <<119977, 119980>>, <<119982, 119993>>, <<119995, 119995>>, <<119997, 120003>>, <<120005, 120063>>},
    {<<120064, 120069>>, <<120071, 120074>>, <<120077, 120084>>, <<120086, 120092>>, <<120094, 120121>>, <<120123, 120126>>, <<120128, 120132>>, <<120134, 120134>>, <<120138, 120144>>, <<120146, 120319>>},
    {<<120320, 120485>>, <<120488, 120512>>, <<120514, 120538>>, <<120540, 120570>>, <<120572, 120575>>},
    {<<120576, 120596>>, <<120598, 120628>>, <<120630, 120654>>, <<120656, 120686>>, <<120688, 120712>>, <<120714, 120744>>, <<120746, 120770>>, <<120772, 120779>>, <<120782, 120831>>},
    {}, {}, {}, {}, {}, {}, {}, {<<122624, 122654>>}, {},
    {<<123136, 123180>>, <<123191, 123197>>, <<123200, 123209>>, <<123214, 123214>>},
    {<<123536, 123565>>, <<123584, 123627>>, <<123632, 123641>>}, {}, {}, {},
    {},
    {<<124896, 124902>>, <<124904, 124907>>, <<124909, 124910>>, <<124912, 124926>>},
    {<<124928, 125124>>, <<125127, 125135>>},
    {<<125184, 125251>>, <<125259, 125259>>, <<125264, 125273>>}, {}, {},
    {<<126065, 126123>>, <<126125, 126127>>, <<126129, 126132>>},
    {<<126209, 126253>>, <<126255, 126269>>},
    {<<126464, 126467>>, <<126469, 126495>>, <<126497, 126498>>, <<126500, 126500>>, <<126503, 126503>>, <<126505, 126514>>, <<126516, 126519>>, <<126521, 126521>>, <<126523, 126523>>, <<126530, 126530>>, <<126535, 126535>>, <<126537, 126537>>, <<126539, 126539>>, <<126541, 126543>>, <<126545, 126546>>, <<126548, 126548>>, <<126551, 126551>>, <<126553, 126553>>, <<126555, 126555>>, <<126557, 126557>>, <<126559, 126559>>, <<126561, 126562>>, <<126564, 126564>>, <<126567, 126570>>, <<126572, 126578>>, <<126580, 126583>>, <<126585, 126588>>, <<126590, 126590>>, <<126592, 126601>>, <<126603, 126619>>, <<126625, 126627>>, <<126629, 126633>>, <<126635, 126651>>},
    {}, {}, {<<127232, 127244>>}, {}, {}, {}, {}, {}, {}, {}, {}, {},
    {<<130032, 130041>>}, {}, {}, {}, {}, {<<131072, 131327>>},
    {<<131328, 131583>>}, {<<131584, 131839>>}, {<<131840, 132095>>},
    {<<132096, 132351>>}, {<<132352, 132607>>}, {<<132608, 132863>>},
    {<<132864, 133119>>}, {<<133120, 133375>>}, {<<133376, 133631>>},
    {<<133632, 133887>>}, {<<133888, 134143>>}, {<<134144, 134399>>},
    {<<134400, 134655>>}, {<<134656, 134911>>}, {<<134912, 135167>>},
    {<<135168, 135423>>}, {<<135424, 135679>>}, {<<135680, 135935>>},
    {<<135936, 136191>>}, {<<136192, 136447>>}, {<<136448, 136703>>},
    {<<136704, 136959>>}, {<<136960, 137215>>}, {<<137216, 137471>>},
    {<<137472, 137727>>}, {<<137728, 137983>>}, {<<137984, 138239>>},
    {<<138240, 138495>>}, {<<138496, 138751>>}, {<<138752, 139007>>},
    {<<139008, 139263>>}, {<<139264, 139519>>}, {<<139520, 139775>>},
    {<<139776, 140031>>}, {<<140032, 140287>>}, {<<140288, 140543>>},
    {<<140544, 140799>>}, {<<140800, 141055>>}, {<<141056, 141311>>},
    {<<141312, 141567>>}, {<<141568, 141823>>}, {<<141824, 142079>>},
    {<<142080, 142335>>}, {<<142336, 142591>>}, {<<142592, 142847>>},
    {<<142848, 143103>>}, {<<143104, 143359>>}, {<<143360, 143615>>},
    {<<143616, 143871>>}, {<<143872, 144127>>}, {<<144128, 144383>>},
    {<<144384, 144639>>}, {<<144640, 144895>>}, {<<144896, 145151>>},
    {<<145152, 145407>>}, {<<145408, 145663>>}, {<<145664, 145919>>},
    {<<145920, 146175>>}, {<<146176, 146431>>}, {<<146432, 146687>>},
    {<<146688, 146943>>}, {<<146944, 147199>>}, {<<147200, 147455>>},
    {<<147456, 147711>>}, {<<147712, 147967>>}, {<<147968, 148223>>},
    {<<148224, 148479>>}, {<<148480, 148735>>}, {<<148736, 148991>>},
    {<<148992, 149247>>}, {<<149248, 149503>>}, {<<149504, 149759>>},
    {<<149760, 150015>>}, {<<150016, 150271>>}, {<<150272, 150527>>},
    {<<150528, 150783>>}, {<<150784, 151039>>}, {<<151040, 151295>>},
    {<<151296, 151551>>}, {<<151552, 151807>>}, {<<151808, 152063>>},
    {<<152064, 152319>>}, {<<152320, 152575>>}, {<<152576, 152831>>},
    {<<152832, 153087>>}, {<<153088, 153343>>}, {<<153344, 153599>>},
    {<<153600, 153855>>}, {<<153856, 154111>>}, {<<154112, 154367>>},
    {<<154368, 154623>>}, {<<154624, 154879>>}, {<<154880, 155135>>},
    {<<155136, 155391>>}, {<<155392, 155647>>}, {<<155648, 155903>>},
    {<<155904, 156159>>}, {<<156160, 156415>>}, {<<156416, 156671>>},
    {<<156672, 156927>>}, {<<156928, 157183>>}, {<<157184, 157439>>},
    {<<157440, 157695>>}, {<<157696, 157951>>}, {<<157952, 158207>>},
    {<<158208, 158463>>}, {<<158464, 158719>>}, {<<158720, 158975>>},
    {<<158976, 159231>>}, {<<159232, 159487>>}, {<<159488, 159743>>},
    {<<159744, 159999>>}, {<<160000, 160255>>}, {<<160256, 160511>>},
    {<<160512, 160767>>}, {<<160768, 161023>>}, {<<161024, 161279>>},
    {<<161280, 161535>>}, {<<161536, 161791>>}, {<<161792, 162047>>},
    {<<162048, 162303>>}, {<<162304, 162559>>}, {<<162560, 162815>>},
    {<<162816, 163071>>}, {<<163072, 163327>>}, {<<163328, 163583>>},
    {<<163584, 163839>>}, {<<163840, 164095>>}, {<<164096, 164351>>},
    {<<164352, 164607>>}, {<<164608, 164863>>}, {<<164864, 165119>>},
    {<<165120, 165375>>}, {<<165376, 165631>>}, {<<165632, 165887>>},
    {<<165888, 166143>>}, {<<166144, 166399>>}, {<<166400, 166655>>},
    {<<166656, 166911>>}, {<<166912, 167167>>}, {<<167168, 167423>>},
    {<<167424, 167679>>}, {<<167680, 167935>>}, {<<167936, 168191>>},
    {<<168192, 168447>>}, {<<168448, 168703>>}, {<<168704, 168959>>},
    {<<168960, 169215>>}, {<<169216, 169471>>}, {<<169472, 169727>>},
    {<<169728, 169983>>}, {<<169984, 170239>>}, {<<170240, 170495>>},
    {<<170496, 170751>>}, {<<170752, 171007>>}, {<<171008, 171263>>},
    {<<171264, 171519>>}, {<<171520, 171775>>}, {<<171776, 172031>>},
    {<<172032, 172287>>}, {<<172288, 172543>>}, {<<172544, 172799>>},
    {<<172800, 173055>>}, {<<173056, 173311>>}, {<<173312, 173567>>},
    {<<173568, 173791>>}, {<<173824, 174079>>}, {<<174080, 174335>>},
    {<<174336, 174591>>}, {<<174592, 174847>>}, {<<174848, 175103>>},
    {<<175104, 175359>>}, {<<175360, 175615>>}, {<<175616, 175871>>},
    {<<175872, 176127>>}, {<<176128, 176383>>}, {<<176384, 176639>>},
    {<<176640, 176895>>}, {<<176896, 177151>>}, {<<177152, 177407>>},
    {<<177408, 177663>>}, {<<177664, 177919>>},
    {<<177920, 177976>>, <<177984, 178175>>},
    {<<178176, 178205>>, <<178208, 178431>>}, {<<178432, 178687>>},
    {<<178688, 178943>>}, {<<178944, 179199>>}, {<<179200, 179455>>},
    {<<179456, 179711>>}, {<<179712, 179967>>}, {<<179968, 180223>>},
    {<<180224, 180479>>}, {<<180480, 180735>>}, {<<180736, 180991>>},
    {<<180992, 181247>>}, {<<181248, 181503>>}, {<<181504, 181759>>},
    {<<181760, 182015>>}, {<<182016, 182271>>}, {<<182272, 182527>>},
    {<<182528, 182783>>}, {<<182784, 183039>>}, {<<183040, 183295>>},
    {<<183296, 183551>>}, {<<183552, 183807>>},
    {<<183808, 183969>>, <<183984, 184063>>}, {<<184064, 184319>>},
    {<<184320, 184575>>}, {<<184576, 184831>>}, {<<184832, 185087>>},
    {<<185088, 185343>>}, {<<185344, 185599>>}, {<<185600, 185855>>},
    {<<185856, 186111>>}, {<<186112, 186367>>}, {<<186368, 186623>>},
    {<<186624, 186879>>}, {<<186880, 187135>>}, {<<187136, 187391>>},
    {<<187392, 187647>>}, {<<187648, 187903>>}, {<<187904, 188159>>},
    {<<188160, 188415>>}, {<<188416, 188671>>}, {<<188672, 188927>>},
    {<<188928, 189183>>}, {<<189184, 189439>>}, {<<189440, 189695>>},
    {<<189696, 189951>>}, {<<189952, 190207>>}, {<<190208, 190463>>},
    {<<190464, 190719>>}, {<<190720, 190975>>}, {<<190976, 191231>>},
    {<<191232, 191456>>}, {}, {}, {}, {}, {}, {}, {}, {}, {}, {}, {}, {},
    {<<194560, 194815>>}, {<<194816, 195071>>}, {<<195072, 195101>>}, {}, {},
    {}, {}, {}, {<<196608, 196863>>}, {<<196864, 197119>>},
    {<<197120, 197375>>}, {<<197376, 197631>>}, {<<197632, 197887>>},
    {<<197888, 198143>>}, {<<198144, 198399>>}, {<<198400, 198655>>},
    {<<198656, 198911>>}, {<<198912, 199167>>}, {<<199168, 199423>>},
    {<<199424, 199679>>}, {<<199680, 199935>>}, {<<199936, 200191>>},
    {<<200192, 200447>>}, {<<200448, 200703>>}, {<<200704, 200959>>},
    {<<200960, 201215>>}, {<<201216, 201471>>}, {<<201472, 201546>>} >>

\* \w
IsWord(c) ==
    /\ c \div 256 < Len(WordRangesByBlock)
    /\ \E r \in WordRangesByBlock[c \div 256 + 1] : r[1] <= c /\ c <= r[2]

\* \s (Unicode whitespace)
Whitespace ==
    (9..13) \cup (28..32) \cup {133, 160, 5760} \cup (8192..8202)
    \cup {8232, 8233, 8239, 8287, 12288}

\* [/／]
IsSlash(c) == c \in {SLASH, FULLWIDTH_SLASH}

\* [：:]
Colons == {COLON, FULLWIDTH_COLON}

\* ------------------------------------------------------------------------
\* Matching primitives.  A position i in 0..Len(t) lies after the first i
\* characters of t.
\* ------------------------------------------------------------------------
\* for each character of t, whether it is a word character
WordFlags(t) == [k \in 1..Len(t) |-> IsWord(t[k])]

\* \b at position i of a text whose word characters are flagged in w
AtWordBoundary(w, i) ==
    LET before == i >= 1 /\ w[i]
        after == i < Len(w) /\ w[i + 1]
    IN  before # after

\* the position reached by the longest run of characters of the class cls
\* starting at position i (what a greedy [cls]* first tries)
SpanEnd(t, i, cls) ==
    CHOOSE j \in i..Len(t) :
        /\ \A k \in (i + 1)..j : t[k] \in cls
        /\ j = Len(t) \/ t[j + 1] \notin cls

\* [0-9]{k} at position i
DigitsAt(t, i, k) == i + k <= Len(t) /\ \A d \in 1..k : IsDigit(t[i + d])

\* the literal lit at position i
LiteralAt(t, i, lit) ==
    i + Len(lit) <= Len(t) /\ SubSeq(t, i + 1, i + Len(lit)) = lit

Max(S) == CHOOSE x \in S : \A y \in S : y <= x

\* a group that did not participate in the match (None); a participating
\* group holds one to three digits
NoGroup == <<>>

\* int(group)
RECURSIVE ToInt(_)
ToInt(ds) ==
    IF ds = <<>> THEN 0
    ELSE ToInt(SubSeq(ds, 1, Len(ds) - 1)) * 10 + (ds[Len(ds)] - ZERO)

\* ------------------------------------------------------------------------
\* The primary pattern (line 98), one operator per alternative.  Each gives
\* the captured group of a match that starts at position i, or NoGroup.
\* Greedy quantifiers with backtracking: among the ways to match, the one
\* with the longest first quantifier is taken, then the longest second, ...
\* ------------------------------------------------------------------------
\* \s*[/／]\s*100\b at position j
QuotientTail(t, w, j) ==
    \E a \in j..SpanEnd(t, j, Whitespace) :
        /\ a < Len(t)
        /\ IsSlash(t[a + 1])
        /\ \E b \in (a + 1)..SpanEnd(t, a + 1, Whitespace) :
               LiteralAt(t, b, Hundred) /\ AtWordBoundary(w, b + 3)

\* alternative 1: \b([0-9]{1,3})\s*[/／]\s*100\b
MatchQuotient(t, w, i) ==
    LET ks == {k \in 1..3 : DigitsAt(t, i, k) /\ QuotientTail(t, w, i + k)}
    IN  IF AtWordBoundary(w, i) /\ ks # {}
        THEN SubSeq(t, i + 1, i + Max(ks))
        ELSE NoGroup

\* \b<label>[：:]*\s*([0-9]{1,3})\b
MatchLabelled(t, w, i, label) ==
    IF ~(AtWordBoundary(w, i) /\ LiteralAt(t, i, label)) THEN NoGroup
    ELSE
        LET l == i + Len(label)
            splits == UNION {{a} \X (a..SpanEnd(t, a, Whitespace)) \X (1..3) :
                                a \in l..SpanEnd(t, l, Colons)}
            ways == {m \in splits : /\ DigitsAt(t, m[2], m[3])
                                    /\ AtWordBoundary(w, m[2] + m[3])}
            Prefers(x, y) ==
                \/ x[1] > y[1]
                \/ x[1] = y[1] /\ x[2] > y[2]
                \/ x[1] = y[1] /\ x[2] = y[2] /\ x[3] >= y[3]
        IN  IF ways = {} THEN NoGroup
            ELSE LET m == CHOOSE x \in ways : \A y \in ways : Prefers(x, y)
                 IN  SubSeq(t, m[2] + 1, m[2] + m[3])

\* the English label, which the pattern does not contain
LabelScoreEnglish == <<115, 99, 111, 114, 101>>

\* a pattern that also accepts the English label
MatchScoreOrEnglish(t, w, i) ==
    IF MatchLabelled(t, w, i, LabelScore) # NoGroup
    THEN MatchLabelled(t, w, i, LabelScore)
    ELSE MatchLabelled(t, w, i, LabelScoreEnglish)

\* alternative 2: \bスコア[：:]*\s*([0-9]{1,3})\b
MatchScore(t, w, i) == MatchLabelled(t, w, i, LabelScore)

\* alternative 3: \b評価[：:]*\s*([0-9]{1,3})\b
MatchEvaluation(t, w, i) == MatchLabelled(t, w, i, LabelEvaluation)

\* alternative 4: \b([0-9]{1,3})\s*点\b
MatchPoints(t, w, i) ==
    LET ks == {k \in 1..3 :
                  /\ DigitsAt(t, i, k)
                  /\ \E a \in (i + k)..SpanEnd(t, i + k, Whitespace) :
                         /\ a < Len(t)
                         /\ t[a + 1] = KANJI_TEN
                         /\ AtWordBoundary(w, a + 1)}
    IN  IF AtWordBoundary(w, i) /\ ks # {}
        THEN SubSeq(t, i + 1, i + Max(ks))
        ELSE NoGroup

\* the result of a search that found nothing (None)
NoMatch == <<>>

\* the groups of the match of the whole pattern at position i: at one
\* position the alternatives are tried from left to right
MatchAt(t, w, i) ==
    IF MatchQuotient(t, w, i) # NoGroup
    THEN <<MatchQuotient(t, w, i), NoGroup, NoGroup, NoGroup>>
    ELSE IF MatchScore(t, w, i) # NoGroup
    THEN <<NoGroup, MatchScore(t, w, i), NoGroup, NoGroup>>
    ELSE IF MatchEvaluation(t, w, i) # NoGroup
    THEN <<NoGroup, NoGroup, MatchEvaluation(t, w, i), NoGroup>>
    ELSE IF MatchPoints(t, w, i) # NoGroup
    THEN <<NoGroup, NoGroup, NoGroup, MatchPoints(t, w, i)>>
    ELSE NoMatch

\* re.search(primary pattern, t).groups(): the match at the leftmost
\* position where the pattern matches
SearchPrimary(t) ==
    LET w == WordFlags(t)
        starts == {i \in 0..Len(t) : MatchAt(t, w, i) # NoMatch}
    IN  IF starts = {} THEN NoMatch
        ELSE MatchAt(t, w, CHOOSE i \in starts : \A j \in starts : i <= j)

\* lines 101-103: the first group that is not None
FirstGroup(groups) ==
    groups[CHOOSE g \in 1..Len(groups) :
               /\ groups[g] # NoGroup
               /\ \A h \in 1..(g - 1) : groups[h] = NoGroup]

\* re.search(clarification pattern, t): the groups of the leftmost match
SearchClarification(t) ==
    LET w == WordFlags(t)
        Ways(i) == {k \in 1..3 : /\ AtWordBoundary(w, i)
                                 /\ DigitsAt(t, i, k)
                                 /\ AtWordBoundary(w, i + k)}
        starts == {i \in 0..Len(t) : Ways(i) # {}}
    IN  IF starts = {} THEN NoMatch
        ELSE LET i == CHOOSE x \in starts : \A y \in starts : x <= y
             IN  <<SubSeq(t, i + 1, i + Max(Ways(i)))>>

\* no upper limit on the clarified score
ScoreNonNegative(n) == 0 <= n

\* line 131: 0 <= score <= 100
ScoreInRange(n) == 0 <= n /\ n <= 100

\* ------------------------------------------------------------------------
\* Inputs: command line, environment, files, and the answers of the endpoint
\* ------------------------------------------------------------------------
\* the files that exist and can be read
Readable == {"a.png", "b.png"}

\* the paths given on the command line; open("") fails like a missing file
Paths == Readable \cup {"missing.png", ""}

\* sys.argv[1:], zero to two arguments
ArgvSet == {<<>>} \cup {<<p>> : p \in Paths} \cup {<<p, q>> : p, q \in Paths}

\* the encodings of sys.stdout the runs are made with (errors are strict)
StdoutEncodings == {"utf-8", "ascii", "latin-1"}

\* whether print(text) succeeds: the encoding of sys.stdout can encode every
\* character of the text; otherwise print raises UnicodeEncodeError before
\* anything of the text is written
Encodable(text, encoding) ==
    \A k \in 1..Len(text) :
        CASE encoding = "ascii" -> text[k] < 128
          [] encoding = "latin-1" -> text[k] < 256
          [] encoding = "utf-8" -> text[k] \notin 55296..57343

\* os.environ.get("OPENAI_API_KEY"): unset, empty, or a key
KeySet == {<<>>, <<"">>, <<"sk-key">>}

\* what can go wrong in a call, with the exception the code then sees:
\* requests.post raises, raise_for_status raises, response.json raises,
\* result["choices"][0]["message"]["content"] raises on a missing key or on
\* an empty list of choices, or the content is null and re.search raises on it
FailureKinds ==
    {"network_error", "http_error", "bad_json", "missing_fields",
     "empty_choices", "null_content"}

ExceptionOf(kind) ==
    CASE kind = "network_error" -> "requests.ConnectionError"
      [] kind = "http_error" -> "requests.HTTPError"
      [] kind = "bad_json" -> "requests.JSONDecodeError"
      [] kind = "missing_fields" -> "KeyError"
      [] kind = "empty_choices" -> "IndexError"
      [] kind = "null_content" -> "TypeError"

\* an outcome of a call: an answer with its text, or a failure.  message
\* is the text that comes with a failure from outside the program: the
\* reason phrase the server sends with its status (as UTF-8), the text of
\* the operating system in a ConnectionError.
FailureWith(kind, text) == [kind |-> kind, content |-> <<>>, message |-> text]
Failure(kind) == FailureWith(kind, <<>>)
Answer(text) == [kind |-> "ok", content |-> text, message |-> <<>>]

\* a reason phrase or system text in Japanese: "エラー"
MessageJapanese == <<12456, 12521, 12540>>

\* a system text with a no-break space, which is not printable: "a\u00a0b"
MessageNoBreakSpace == <<97, 160, 98>>

\* text.encode("utf-8"): the bytes of a text
RECURSIVE Utf8Encode(_)
Utf8Encode(text) ==
    IF text = <<>> THEN <<>>
    ELSE LET c == Head(text)
             bytes ==
                 IF c < 128 THEN <<c>>
                 ELSE IF c < 2048
                 THEN <<192 + (c \div 64), 128 + (c % 64)>>
                 ELSE IF c < 65536
                 THEN <<224 + (c \div 4096), 128 + ((c \div 64) % 64),
                        128 + (c % 64)>>
                 ELSE <<240 + (c \div 262144), 128 + ((c \div 4096) % 64),
                        128 + ((c \div 64) % 64), 128 + (c % 64)>>
         IN  bytes \o Utf8Encode(Tail(text))

\* fp.readline() on the status line: the bytes before the first line feed
FirstLine(bytes) ==
    LET ends == {k \in 1..Len(bytes) : bytes[k] = 10}
    IN  IF ends = {} THEN bytes
        ELSE SubSeq(bytes, 1, (CHOOSE k \in ends : \A m \in ends : k <= m) - 1)

\* bytes.decode("iso-8859-1"): each byte is the character of that number
Latin1Decode(bytes) == bytes

\* str.strip(): the text without the white space at its two ends
Strip(text) ==
    LET kept == {k \in 1..Len(text) : text[k] \notin Whitespace}
    IN  IF kept = {} THEN <<>>
        ELSE SubSeq(text, CHOOSE k \in kept : \A m \in kept : k <= m,
                          CHOOSE k \in kept : \A m \in kept : m <= k)

\* the ranges of the characters with str.isprintable()
PrintableRanges ==
    { <<32, 126>>, <<161, 172>>, <<174, 887>>, <<890, 895>>, <<900, 906>>,
      <<908, 908>>, <<910, 929>>, <<931, 1327>>, <<1329, 1366>>,
      <<1369, 1418>>, <<1421, 1423>>, <<1425, 1479>>, <<1488, 1514>>,
      <<1519, 1524>>, <<1542, 1563>>, <<1565, 1756>>, <<1758, 1805>>,
      <<1808, 1866>>, <<1869, 1969>>, <<1984, 2042>>, <<2045, 2093>>,
      <<2096, 2110>>, <<2112, 2139>>, <<2142, 2142>>, <<2144, 2154>>,
      <<2160, 2190>>, <<2200, 2273>>, <<2275, 2435>>, <<2437, 2444>>,
      <<2447, 2448>>, <<2451, 2472>>, <<2474, 2480>>, <<2482, 2482>>,
      <<2486, 2489>>, <<2492, 2500>>, <<2503, 2504>>, <<2507, 2510>>,
      <<2519, 2519>>, <<2524, 2525>>, <<2527, 2531>>, <<2534, 2558>>,
      <<2561, 2563>>, <<2565, 2570>>, <<2575, 2576>>, <<2579, 2600>>,
      <<2602, 2608>>, <<2610, 2611>>, <<2613, 2614>>, <<2616, 2617>>,
      <<2620, 2620>>, <<2622, 2626>>, <<2631, 2632>>, <<2635, 2637>>,
      <<2641, 2641>>, <<2649, 2652>>, <<2654, 2654>>, <<2662, 2678>>,
      <<2689, 2691>>, <<2693, 2701>>, <<2703, 2705>>, <<2707, 2728>>,
      <<2730, 2736>>, <<2738, 2739>>, <<2741, 2745>>, <<2748, 2757>>,
      <<2759, 2761>>, <<2763, 2765>>, <<2768, 2768>>, <<2784, 2787>>,
      <<2790, 2801>>, <<2809, 2815>>, <<2817, 2819>>, <<2821, 2828>>,
      <<2831, 2832>>, <<2835, 2856>>, <<2858, 2864>>, <<2866, 2867>>,
      <<2869, 2873>>, <<2876, 2884>>, <<2887, 2888>>, <<2891, 2893>>,
      <<2901, 2903>>, <<2908, 2909>>, <<2911, 2915>>, <<2918, 2935>>,
      <<2946, 2947>>, <<2949, 2954>>, <<2958, 2960>>, <<2962, 2965>>,
      <<2969, 2970>>, <<2972, 2972>>, <<2974, 2975>>, <<2979, 2980>>,
      <<2984, 2986>>, <<2990, 3001>>, <<3006, 3010>>, <<3014, 3016>>,
      <<3018, 3021>>, <<3024, 3024>>, <<3031, 3031>>, <<3046, 3066>>,
      <<3072, 3084>>, <<3086, 3088>>, <<3090, 3112>>, <<3114, 3129>>,
      <<3132, 3140>>, <<3142, 3144>>, <<3146, 3149>>, <<3157, 3158>>,
      <<3160, 3162>>, <<3165, 3165>>, <<3168, 3171>>, <<3174, 3183>>,
      <<3191, 3212>>, <<3214, 3216>>, <<3218, 3240>>, <<3242, 3251>>,
      <<3253, 3257>>, <<3260, 3268>>, <<3270, 3272>>, <<3274, 3277>>,
      <<3285, 3286>>, <<3293, 3294>>, <<3296, 3299>>, <<3302, 3311>>,
      <<3313, 3314>>, <<3328, 3340>>, <<3342, 3344>>, <<3346, 3396>>,
      <<3398, 3400>>, <<3402, 3407>>, <<3412, 3427>>, <<3430, 3455>>,
      <<3457, 3459>>, <<3461, 3478>>, <<3482, 3505>>, <<3507, 3515>>,
      <<3517, 3517>>, <<3520, 3526>>, <<3530, 3530>>, <<3535, 3540>>,
      <<3542, 3542>>, <<3544, 3551>>, <<3558, 3567>>, <<3570, 3572>>,
      <<3585, 3642>>, <<3647, 3675>>, <<3713, 3714>>, <<3716, 3716>>,
      <<3718, 3722>>, <<3724, 3747>>, <<3749, 3749>>, <<3751, 3773>>,
      <<3776, 3780>>, <<3782, 3782>>, <<3784, 3789>>, <<3792, 3801>>,
      <<3804, 3807>>, <<3840, 3911>>, <<3913, 3948>>, <<3953, 3991>>,
      <<3993, 4028>>, <<4030, 4044>>, <<4046, 4058>>, <<4096, 4293>>,
      <<4295, 4295>>, <<4301, 4301>>, <<4304, 4680>>, <<4682, 4685>>,
      <<4688, 4694>>, <<4696, 4696>>, <<4698, 4701>>, <<4704, 4744>>,
      <<4746, 4749>>, <<4752, 4784>>, <<4786, 4789>>, <<4792, 4798>>,
      <<4800, 4800>>, <<4802, 4805>>, <<4808, 4822>>, <<4824, 4880>>,
      <<4882, 4885>>, <<4888, 4954>>, <<4957, 4988>>, <<4992, 5017>>,
      <<5024, 5109>>, <<5112, 5117>>, <<5120, 5759>>, <<5761, 5788>>,
      <<5792, 5880>>, <<5888, 5909>>, <<5919, 5942>>, <<5952, 5971>>,
      <<5984, 5996>>, <<5998, 6000>>, <<6002, 6003>>, <<6016, 6109>>,
      <<6112, 6121>>, <<6128, 6137>>, <<6144, 6157>>, <<6159, 6169>>,
      <<6176, 6264>>, <<6272, 6314>>, <<6320, 6389>>, <<6400, 6430>>,
      <<6432, 6443>>, <<6448, 6459>>, <<6464, 6464>>, <<6468, 6509>>,
      <<6512, 6516>>, <<6528, 6571>>, <<6576, 6601>>, <<6608, 6618>>,
      <<6622, 6683>>, <<6686, 6750>>, <<6752, 6780>>, <<6783, 6793>>,
      <<6800, 6809>>, <<6816, 6829>>, <<6832, 6862>>, <<6912, 6988>>,
      <<6992, 7038>>, <<7040, 7155>>, <<7164, 7223>>, <<7227, 7241>>,
      <<7245, 7304>>, <<7312, 7354>>, <<7357, 7367>>, <<7376, 7418>>,
      <<7424, 7957>>, <<7960, 7965>>, <<7968, 8005>>, <<8008, 8013>>,
      <<8016, 8023>>, <<8025, 8025>>, <<8027, 8027>>, <<8029, 8029>>,
      <<8031, 8061>>, <<8064, 8116>>, <<8118, 8132>>, <<8134, 8147>>,
      <<8150, 8155>>, <<8157, 8175>>, <<8178, 8180>>, <<8182, 8190>>,
      <<8208, 8231>>, <<8240, 8286>>, <<8304, 8305>>, <<8308, 8334>>,
      <<8336, 8348>>, <<8352, 8384>>, <<8400, 8432>>, <<8448, 8587>>,
      <<8592, 9254>>, <<9280, 9290>>, <<9312, 11123>>, <<11126, 11157>>,
      <<11159, 11507>>, <<11513, 11557>>, <<11559, 11559>>, <<11565, 11565>>,
      <<11568, 11623>>, <<11631, 11632>>, <<11647, 11670>>, <<11680, 11686>>,
      <<11688, 11694>>, <<11696, 11702>>, <<11704, 11710>>, <<11712, 11718>>,
      <<11720, 11726>>, <<11728, 11734>>, <<11736, 11742>>, <<11744, 11869>>,
      <<11904, 11929>>, <<11931, 12019>>, <<12032, 12245>>, <<12272, 12283>>,
      <<12289, 12351>>, <<12353, 12438>>, <<12441, 12543>>, <<12549, 12591>>,
      <<12593, 12686>>, <<12688, 12771>>, <<12784, 12830>>, <<12832, 42124>>,
      <<42128, 42182>>, <<42192, 42539>>, <<42560, 42743>>, <<42752, 42954>>,
      <<42960, 42961>>, <<42963, 42963>>, <<42965, 42969>>, <<42994, 43052>>,
      <<43056, 43065>>, <<43072, 43127>>, <<43136, 43205>>, <<43214, 43225>>,
      <<43232, 43347>>, <<43359, 43388>>, <<43392, 43469>>, <<43471, 43481>>,
      <<43486, 43518>>, <<43520, 43574>>, <<43584, 43597>>, <<43600, 43609>>,
      <<43612, 43714>>, <<43739, 43766>>, <<43777, 43782>>, <<43785, 43790>>,
      <<43793, 43798>>, <<43808, 43814>>, <<43816, 43822>>, <<43824, 43883>>,
      <<43888, 44013>>, <<44016, 44025>>, <<44032, 55203>>, <<55216, 55238>>,
      <<55243, 55291>>, <<63744, 64109>>, <<64112, 64217>>, <<64256, 64262>>,
      <<64275, 64279>>, <<64285, 64310>>, <<64312, 64316>>, <<64318, 64318>>,
      <<64320, 64321>>, <<64323, 64324>>, <<64326, 64450>>, <<64467, 64911>>,
      <<64914, 64967>>, <<64975, 64975>>, <<65008, 65049>>, <<65056, 65106>>,
      <<65108, 65126>>, <<65128, 65131>>, <<65136, 65140>>, <<65142, 65276>>,
      <<65281, 65470>>, <<65474, 65479>>, <<65482, 65487>>, <<65490, 65495>>,
      <<65498, 65500>>, <<65504, 65510>>, <<65512, 65518>>, <<65532, 65533>>,
      <<65536, 65547>>, <<65549, 65574>>, <<65576, 65594>>, <<65596, 65597>>,
      <<65599, 65613>>, <<65616, 65629>>, <<65664, 65786>>, <<65792, 65794>>,
      <<65799, 65843>>, <<65847, 65934>>, <<65936, 65948>>, <<65952, 65952>>,
      <<66000, 66045>>, <<66176, 66204>>, <<66208, 66256>>, <<66272, 66299>>,
      <<66304, 66339>>, <<66349, 66378>>, <<66384, 66426>>, <<66432, 66461>>,
      <<66463, 66499>>, <<66504, 66517>>, <<66560, 66717>>, <<66720, 66729>>,
      <<66736, 66771>>, <<66776, 66811>>, <<66816, 66855>>, <<66864, 66915>>,
      <<66927, 66938>>, <<66940, 66954>>, <<66956, 66962>>, <<66964, 66965>>,
      <<66967, 66977>>, <<66979, 66993>>, <<66995, 67001>>, <<67003, 67004>>,
      <<67072, 67382>>, <<67392, 67413>>, <<67424, 67431>>, <<67456, 67461>>,
      <<67463, 67504>>, <<67506, 67514>>, <<67584, 67589>>, <<67592, 67592>>,
      <<67594, 67637>>, <<67639, 67640>>, <<67644, 67644>>, <<67647, 67669>>,
      <<67671, 67742>>, <<67751, 67759>>, <<67808, 67826>>, <<67828, 67829>>,
      <<67835, 67867>>, <<67871, 67897>>, <<67903, 67903>>, <<67968, 68023>>,
      <<68028, 68047>>, <<68050, 68099>>, <<68101, 68102>>, <<68108, 68115>>,
      <<68117, 68119>>, <<68121, 68149>>, <<68152, 68154>>, <<68159, 68168>>,
      <<68176, 68184>>, <<68192, 68255>>, <<68288, 68326>>, <<68331, 68342>>,
      <<68352, 68405>>, <<68409, 68437>>, <<68440, 68466>>, <<68472, 68497>>,
      <<68505, 68508>>, <<68521, 68527>>, <<68608, 68680>>, <<68736, 68786>>,
      <<68800, 68850>>, <<68858, 68903>>, <<68912, 68921>>, <<69216, 69246>>,
      <<69248, 69289>>, <<69291, 69293>>, <<69296, 69297>>, <<69376, 69415>>,
      <<69424, 69465>>, <<69488, 69513>>, <<69552, 69579>>, <<69600, 69622>>,
      <<69632, 69709>>, <<69714, 69749>>, <<69759, 69820>>, <<69822, 69826>>,
      <<69840, 69864>>, <<69872, 69881>>, <<69888, 69940>>, <<69942, 69959>>,
      <<69968, 70006>>, <<70016, 70111>>, <<70113, 70132>>, <<70144, 70161>>,
      <<70163, 70206>>, <<70272, 70278>>, <<70280, 70280>>, <<70282, 70285>>,
      <<70287, 70301>>, <<70303, 70313>>, <<70320, 70378>>, <<70384, 70393>>,
      <<70400, 70403>>, <<70405, 70412>>, <<70415, 70416>>, <<70419, 70440>>,
      <<70442, 70448>>, <<70450, 70451>>, <<70453, 70457>>, <<70459, 70468>>,
      <<70471, 70472>>, <<70475, 70477>>, <<70480, 70480>>, <<70487, 70487>>,
      <<70493, 70499>>, <<70502, 70508>>, <<70512, 70516>>, <<70656, 70747>>,
      <<70749, 70753>>, <<70784, 70855>>, <<70864, 70873>>, <<71040, 71093>>,
      <<71096, 71133>>, <<71168, 71236>>, <<71248, 71257>>, <<71264, 71276>>,
      <<71296, 71353>>, <<71360, 71369>>, <<71424, 71450>>, <<71453, 71467>>,
      <<71472, 71494>>, <<71680, 71739>>, <<71840, 71922>>, <<71935, 71942>>,
      <<71945, 71945>>, <<71948, 71955>>, <<71957, 71958>>, <<71960, 71989>>,
      <<71991, 71992>>, <<71995, 72006>>, <<72016, 72025>>, <<72096, 72103>>,
      <<72106, 72151>>, <<72154, 72164>>, <<72192, 72263>>, <<72272, 72354>>,
      <<72368, 72440>>, <<72704, 72712>>, <<72714, 72758>>, <<72760, 72773>>,
      <<72784, 72812>>, <<72816, 72847>>, <<72850, 72871>>, <<72873, 72886>>,
      <<72960, 72966>>, <<72968, 72969>>, <<72971, 73014>>, <<73018, 73018>>,
      <<73020, 73021>>, <<73023, 73031>>, <<73040, 73049>>, <<73056, 73061>>,
      <<73063, 73064>>, <<73066, 73102>>, <<73104, 73105>>, <<73107, 73112>>,
      <<73120, 73129>>, <<73440, 73464>>, <<73648, 73648>>, <<73664, 73713>>,
      <<73727, 74649>>, <<74752, 74862>>, <<74864, 74868>>, <<74880, 75075>>,
      <<77712, 77810>>, <<77824, 78894>>, <<82944, 83526>>, <<92160, 92728>>,
      <<92736, 92766>>, <<92768, 92777>>, <<92782, 92862>>, <<92864, 92873>>,
      <<92880, 92909>>, <<92912, 92917>>, <<92928, 92997>>, <<93008, 93017>>,
      <<93019, 93025>>, <<93027, 93047>>, <<93053, 93071>>, <<93760, 93850>>,
      <<93952, 94026>>, <<94031, 94087>>, <<94095, 94111>>, <<94176, 94180>>,
      <<94192, 94193>>, <<94208, 100343>>, <<100352, 101589>>,
      <<101632, 101640>>, <<110576, 110579>>, <<110581, 110587>>,
      <<110589, 110590>>, <<110592, 110882>>, <<110928, 110930>>,
      <<110948, 110951>>, <<110960, 111355>>, <<113664, 113770>>,
      <<113776, 113788>>, <<113792, 113800>>, <<113808, 113817>>,
      <<113820, 113823>>, <<118528, 118573>>, <<118576, 118598>>,
      <<118608, 118723>>, <<118784, 119029>>, <<119040, 119078>>,
      <<119081, 119154>>, <<119163, 119274>>, <<119296, 119365>>,
      <<119520, 119539>>, <<119552, 119638>>, <<119648, 119672>>,
      <<119808, 119892>>, <<119894, 119964>>, <<119966, 119967>>,
      <<119970, 119970>>, <<119973, 119974>>, <<119977, 119980>>,
      <<119982, 119993>>, <<119995, 119995>>, <<119997, 120003>>,
      <<120005, 120069>>, <<120071, 120074>>, <<120077, 120084>>,
      <<120086, 120092>>, <<120094, 120121>>, <<120123, 120126>>,
      <<120128, 120132>>, <<120134, 120134>>, <<120138, 120144>>,
      <<120146, 120485>>, <<120488, 120779>>, <<120782, 121483>>,
      <<121499, 121503>>, <<121505, 121519>>, <<122624, 122654>>,
      <<122880, 122886>>, <<122888, 122904>>, <<122907, 122913>>,
      <<122915, 122916>>, <<122918, 122922>>, <<123136, 123180>>,
      <<123184, 123197>>, <<123200, 123209>>, <<123214, 123215>>,
      <<123536, 123566>>, <<123584, 123641>>, <<123647, 123647>>,
      <<124896, 124902>>, <<124904, 124907>>, <<124909, 124910>>,
      <<124912, 124926>>, <<124928, 125124>>, <<125127, 125142>>,
      <<125184, 125259>>, <<125264, 125273>>, <<125278, 125279>>,
      <<126065, 126132>>, <<126209, 126269>>, <<126464, 126467>>,
      <<126469, 126495>>, <<126497, 126498>>, <<126500, 126500>>,
      <<126503, 126503>>, <<126505, 126514>>, <<126516, 126519>>,
      <<126521, 126521>>, <<126523, 126523>>, <<126530, 126530>>,
      <<126535, 126535>>, <<126537, 126537>>, <<126539, 126539>>,
      <<126541, 126543>>, <<126545, 126546>>, <<126548, 126548>>,
      <<126551, 126551>>, <<126553, 126553>>, <<126555, 126555>>,
      <<126557, 126557>>, <<126559, 126559>>, <<126561, 126562>>,
      <<126564, 126564>>, <<126567, 126570>>, <<126572, 126578>>,
      <<126580, 126583>>, <<126585, 126588>>, <<126590, 126590>>,
      <<126592, 126601>>, <<126603, 126619>>, <<126625, 126627>>,
      <<126629, 126633>>, <<126635, 126651>>, <<126704, 126705>>,
      <<126976, 127019>>, <<127024, 127123>>, <<127136, 127150>>,
      <<127153, 127167>>, <<127169, 127183>>, <<127185, 127221>>,
      <<127232, 127405>>, <<127462, 127490>>, <<127504, 127547>>,
      <<127552, 127560>>, <<127568, 127569>>, <<127584, 127589>>,
      <<127744, 128727>>, <<128733, 128748>>, <<128752, 128764>>,
      <<128768, 128883>>, <<128896, 128984>>, <<128992, 129003>>,
      <<129008, 129008>>, <<129024, 129035>>, <<129040, 129095>>,
      <<129104, 129113>>, <<129120, 129159>>, <<129168, 129197>>,
      <<129200, 129201>>, <<129280, 129619>>, <<129632, 129645>>,
      <<129648, 129652>>, <<129656, 129660>>, <<129664, 129670>>,
      <<129680, 129708>>, <<129712, 129722>>, <<129728, 129733>>,
      <<129744, 129753>>, <<129760, 129767>>, <<129776, 129782>>,
      <<129792, 129938>>, <<129940, 129994>>, <<130032, 130041>>,
      <<131072, 173791>>, <<173824, 177976>>, <<177984, 178205>>,
      <<178208, 183969>>, <<183984, 191456>>, <<194560, 195101>>,
      <<196608, 201546>>, <<917760, 917999>> }

\* str.isprintable() of one character
IsPrintable(c) == \E r \in PrintableRanges : r[1] <= c /\ c <= r[2]

\* the n hexadecimal digits of c, in lower case
Hex(c, n) ==
    [k \in 1..n |->
        LET d == (c \div (16 ^ (n - k))) % 16
        IN  IF d < 10 THEN 48 + d ELSE 87 + d]

\* the quote repr() puts around a text: " when the text holds ' and no ",
\* otherwise '
ReprQuote(text) ==
    IF (\E k \in 1..Len(text) : text[k] = 39)
       /\ ~(\E k \in 1..Len(text) : text[k] = 34)
    THEN 34 ELSE 39

\* what repr() writes for one character of a text between the quotes
ReprChar(c, quote) ==
    IF c = quote \/ c = 92 THEN <<92, c>>
    ELSE IF c = 9 THEN <<92, 116>>
    ELSE IF c = 10 THEN <<92, 110>>
    ELSE IF c = 13 THEN <<92, 114>>
    ELSE IF c < 32 \/ c = 127 THEN <<92, 120>> \o Hex(c, 2)
    ELSE IF c < 127 \/ IsPrintable(c) THEN <<c>>
    ELSE IF c < 256 THEN <<92, 120>> \o Hex(c, 2)
    ELSE IF c < 65536 THEN <<92, 117>> \o Hex(c, 4)
    ELSE <<92, 85>> \o Hex(c, 8)

\* the parts of a sequence of texts, one after the other
RECURSIVE Concat(_)
Concat(parts) ==
    IF parts = <<>> THEN <<>> ELSE Head(parts) \o Concat(Tail(parts))

\* repr(text) without the quotes around it
ReprBody(text) ==
    Concat([k \in 1..Len(text) |-> ReprChar(text[k], ReprQuote(text))])

\* the characters of str(e) (line 139) that come from outside the program.
\* The status line of an HTTP answer is read up to its line feed and decoded
\* as iso-8859-1, and the reason phrase is stripped of the white space at its
\* ends, before raise_for_status (line 91) puts it into the HTTPError: the
\* reason phrase appears byte by byte.  The text of the operating system in
\* a ConnectionError (line 80) appears inside the repr() of the error that
\* caused it: a character that is not printable appears as its ASCII escape.
\* The rest of str(e), and the whole of it for the exceptions the
\* interpreter raises, is ASCII.  (A phrase of white space only that holds
\* one of U+001C..U+001F is no http_error: the client refuses the status
\* line, and raise_for_status is not reached.)
ErrorText(r) ==
    CASE r.kind = "http_error" ->
             Strip(Latin1Decode(FirstLine(Utf8Encode(r.message))))
      [] r.kind = "network_error" -> ReprBody(r.message)
      [] OTHER -> r.message

\* fragments of primary answers:
\* "85/100", "スコア: 70", "評価：60", "40点", "score: 30", "evaluation 20",
\* " ", "1", "／100", "点"
PrimaryFragments ==
    { <<56, 53, SLASH, ONE, ZERO, ZERO>>,
      <<KATAKANA_SU, KATAKANA_KO, KATAKANA_A, COLON, SPACE, 55, 48>>,
      <<KANJI_HYOU, KANJI_KA, FULLWIDTH_COLON, 54, 48>>,
      <<52, 48, KANJI_TEN>>,
      <<115, 99, 111, 114, 101, COLON, SPACE, 51, 48>>,
      <<101, 118, 97, 108, 117, 97, 116, 105, 111, 110, SPACE, 50, 48>>,
      <<SPACE>>,
      <<ONE>>,
      <<FULLWIDTH_SLASH, ONE, ZERO, ZERO>>,
      <<KANJI_TEN>> }

\* fragments of clarification replies: "72", "100", "150", "0", " ", "点", "-"
ClarificationFragments ==
    { <<55, 50>>, <<ONE, ZERO, ZERO>>, <<ONE, 53, ZERO>>, <<ZERO>>,
      <<SPACE>>, <<KANJI_TEN>>, <<45>> }

\* the texts made of at most n fragments of F
RECURSIVE TextsOf(_, _)
TextsOf(F, n) ==
    IF n = 0 THEN {<<>>}
    ELSE LET S == TextsOf(F, n - 1) IN S \cup {s \o f : s \in S, f \in F}

\* a few answers and every failure, for the runs that vary everything else
SamplePrimary ==
    {Failure(k) : k \in FailureKinds}
    \cup {FailureWith("http_error", MessageJapanese),
          FailureWith("network_error", MessageJapanese),
          FailureWith("network_error", MessageNoBreakSpace)}
    \cup {Answer(<<56, 53, SLASH, ONE, ZERO, ZERO>>),
          Answer(<<115, 99, 111, 114, 101, COLON, SPACE, 51, 48>>),
          Answer(<<>>)}

SampleClarification ==
    {Failure(k) : k \in FailureKinds}
    \cup {FailureWith("http_error", MessageJapanese),
          FailureWith("network_error", MessageJapanese)}
    \cup {Answer(<<55, 50>>), Answer(<<ONE, 53, ZERO>>), Answer(<<>>)}

\* ------------------------------------------------------------------------
\* State
\* ------------------------------------------------------------------------
VARIABLES
    argv,               \* sys.argv[1:]
    environ,            \* os.environ.get("OPENAI_API_KEY"), optional
    stdout_encoding,    \* sys.stdout.encoding
    transport,          \* the answers the endpoint gives to the 1st and 2nd call
    pc,                 \* position of the program
    image_path,         \* optional
    before_image_path,  \* optional
    prompt,             \* which closing instruction the prompt carries
    messages,           \* the content parts of the user message
    calls,              \* the requests posted so far
    ai_response,        \* optional text
    clarification_text, \* optional text
    score,              \* the value returned by evaluate_image, optional
    raised,             \* the exception that left evaluate_image, optional
    stdout,             \* the lines printed
    exit_code           \* optional

vars == <<argv, environ, stdout_encoding, transport, pc, image_path, before_image_path, prompt,
          messages, calls, ai_response, clarification_text, score, raised,
          stdout, exit_code>>

Line(tag, val) == [tag |-> tag, val |-> val]

\* truth value of an optional string: None and "" are false
Truthy(opt) == opt # <<>> /\ opt[1] # ""

InitLocals ==
    /\ pc = "main"
    /\ image_path = <<>>
    /\ before_image_path = <<>>
    /\ prompt = ""
    /\ messages = <<>>
    /\ calls = <<>>
    /\ ai_response = <<>>
    /\ clarification_text = <<>>
    /\ score = <<>>
    /\ raised = <<>>
    /\ stdout = <<>>
    /\ exit_code = <<>>

\* every command line, environment and failure, with a few answers
InitEnvironment ==
    /\ argv \in ArgvSet
    /\ environ \in KeySet
    /\ stdout_encoding \in StdoutEncodings
    /\ transport \in {<<p, c>> : p \in SamplePrimary, c \in SampleClarification}

\* every primary answer text within the bound, in a run that reaches the call
InitPrimary ==
    /\ argv = <<"a.png">>
    /\ environ = <<"sk-key">>
    /\ stdout_encoding \in {"utf-8", "ascii"}
    /\ transport \in {<<Answer(t), c>> :
                         t \in TextsOf(PrimaryFragments, MaxFrags),
                         c \in {Answer(<<55, 50>>), Failure("network_error")}}

\* every clarification reply within the bound, after a primary answer that
\* holds no score the primary pattern accepts
InitClarification ==
    /\ argv = <<"a.png", "b.png">>
    /\ environ = <<"sk-key">>
    /\ stdout_encoding \in {"utf-8", "ascii"}
    /\ transport \in {<<p, Answer(t)>> :
                         p \in {Answer(<<>>),
                                Answer(<<115, 99, 111, 114, 101, COLON, SPACE, 51, 48>>)},
                         t \in TextsOf(ClarificationFragments, MaxClarFrags)}

Init == InitLocals /\ (InitEnvironment \/ InitPrimary \/ InitClarification)

\* ------------------------------------------------------------------------
\* The program
\* ------------------------------------------------------------------------
\* lines 143-145: no image path on the command line
MainUsage ==
    /\ pc = "main"
    /\ Len(argv) < 1
    /\ stdout' = Append(stdout, Line("Usage", 0))
    /\ exit_code' = <<1>>
    /\ pc' = "exited"
    /\ UNCHANGED <<argv, environ, stdout_encoding, transport, image_path, before_image_path,
                   prompt, messages, calls, ai_response, clarification_text,
                   score, raised>>

\* lines 147-150: the arguments are read and evaluate_image is called
MainCall ==
    /\ pc = "main"
    /\ Len(argv) >= 1
    /\ image_path' = <<argv[1]>>
    /\ before_image_path' = (IF Len(argv) > 1 THEN <<argv[2]>> ELSE <<>>)
    /\ pc' = "evaluate_image"
    /\ UNCHANGED <<argv, environ, stdout_encoding, transport, prompt, messages, calls,
                   ai_response, clarification_text, score, raised, stdout,
                   exit_code>>

\* a check that only tests for an unset variable
CredentialCheckUnsetOnly ==
    /\ pc = "evaluate_image"
    /\ IF environ = <<>>
       THEN /\ stdout' = Append(stdout, Line("NO_API_KEY", 0))
            /\ score' = <<-1>>
            /\ pc' = "returned"
            /\ UNCHANGED <<prompt, messages>>
       ELSE /\ prompt' = (IF Truthy(before_image_path)
                          THEN "improvement" ELSE "quality")
            /\ messages' = <<"text">>
            /\ pc' = "encode"
            /\ UNCHANGED <<stdout, score>>
    /\ UNCHANGED <<argv, environ, stdout_encoding, transport, image_path, before_image_path,
                   calls, ai_response, clarification_text, raised, exit_code>>

\* lines 13-62: the credential check, then the prompt and the text part
CredentialCheck ==
    /\ pc = "evaluate_image"
    /\ IF ~Truthy(environ)
       THEN /\ stdout' = Append(stdout, Line("NO_API_KEY", 0))
            /\ score' = <<-1>>
            /\ pc' = "returned"
            /\ UNCHANGED <<prompt, messages>>
       ELSE /\ prompt' = (IF Truthy(before_image_path)
                          THEN "improvement" ELSE "quality")
            /\ messages' = <<"text">>
            /\ pc' = "encode"
            /\ UNCHANGED <<stdout, score>>
    /\ UNCHANGED <<argv, environ, stdout_encoding, transport, image_path, before_image_path,
                   calls, ai_response, clarification_text, raised, exit_code>>

\* lines 8-10: whether open() succeeds on the path
encode_image(path) == path \in Readable

\* an encoding step whose failure is absorbed like a failed call
EncodeImageAbsorbed ==
    /\ pc = "encode"
    /\ IF encode_image(image_path[1])
       THEN /\ messages' = Append(messages, "image_url")
            /\ pc' = (IF Truthy(before_image_path)
                      THEN "encode_before" ELSE "post")
            /\ UNCHANGED <<score, stdout>>
       ELSE /\ stdout' = Append(stdout, Line("Error: ", 0))
            /\ score' = <<50>>
            /\ pc' = "returned"
            /\ UNCHANGED messages
    /\ UNCHANGED <<argv, environ, stdout_encoding, transport, image_path, before_image_path,
                   prompt, calls, ai_response, clarification_text, raised,
                   exit_code>>

\* lines 65-69: the current image is read and attached; a file error is not
\* inside the try block and leaves evaluate_image and the program
EncodeImage ==
    /\ pc = "encode"
    /\ IF encode_image(image_path[1])
       THEN /\ messages' = Append(messages, "image_url")
            /\ pc' = (IF Truthy(before_image_path)
                      THEN "encode_before" ELSE "post")
            /\ UNCHANGED <<raised, exit_code>>
       ELSE /\ raised' = <<"FileNotFoundError">>
            /\ exit_code' = <<1>>
            /\ pc' = "crashed"
            /\ UNCHANGED messages
    /\ UNCHANGED <<argv, environ, stdout_encoding, transport, image_path, before_image_path,
                   prompt, calls, ai_response, clarification_text, score,
                   stdout>>

\* lines 71-76: the before image is read and attached
EncodeBefore ==
    /\ pc = "encode_before"
    /\ IF encode_image(before_image_path[1])
       THEN /\ messages' = Append(messages, "image_url")
            /\ pc' = "post"
            /\ UNCHANGED <<raised, exit_code>>
       ELSE /\ raised' = <<"FileNotFoundError">>
            /\ exit_code' = <<1>>
            /\ pc' = "crashed"
            /\ UNCHANGED messages
    /\ UNCHANGED <<argv, environ, stdout_encoding, transport, image_path, before_image_path,
                   prompt, calls, ai_response, clarification_text, score,
                   stdout>>

\* the direct base classes of the exception classes: the built-in ones
\* under their own names, those of other modules under module.name
\* (asyncio's CancelledError, json's JSONDecodeError, and the classes of
\* requests.exceptions that a call can raise)
ClassBases ==
    "BaseException" :> {}
    @@ "BaseExceptionGroup" :> {"BaseException"}
    @@ "Exception" :> {"BaseException"}
    @@ "GeneratorExit" :> {"BaseException"}
    @@ "KeyboardInterrupt" :> {"BaseException"}
    @@ "SystemExit" :> {"BaseException"}
    @@ "ArithmeticError" :> {"Exception"}
    @@ "AssertionError" :> {"Exception"}
    @@ "AttributeError" :> {"Exception"}
    @@ "BufferError" :> {"Exception"}
    @@ "EOFError" :> {"Exception"}
    @@ "ExceptionGroup" :> {"BaseExceptionGroup", "Exception"}
    @@ "ImportError" :> {"Exception"}
    @@ "LookupError" :> {"Exception"}
    @@ "MemoryError" :> {"Exception"}
    @@ "NameError" :> {"Exception"}
    @@ "OSError" :> {"Exception"}
    @@ "ReferenceError" :> {"Exception"}
    @@ "RuntimeError" :> {"Exception"}
    @@ "StopAsyncIteration" :> {"Exception"}
    @@ "StopIteration" :> {"Exception"}
    @@ "SyntaxError" :> {"Exception"}
    @@ "SystemError" :> {"Exception"}
    @@ "TypeError" :> {"Exception"}
    @@ "ValueError" :> {"Exception"}
    @@ "Warning" :> {"Exception"}
    @@ "BlockingIOError" :> {"OSError"}
    @@ "BytesWarning" :> {"Warning"}
    @@ "ChildProcessError" :> {"OSError"}
    @@ "ConnectionError" :> {"OSError"}
    @@ "DeprecationWarning" :> {"Warning"}
    @@ "EncodingWarning" :> {"Warning"}
    @@ "FileExistsError" :> {"OSError"}
    @@ "FileNotFoundError" :> {"OSError"}
    @@ "FloatingPointError" :> {"ArithmeticError"}
    @@ "FutureWarning" :> {"Warning"}
    @@ "ImportWarning" :> {"Warning"}
    @@ "IndentationError" :> {"SyntaxError"}
    @@ "IndexError" :> {"LookupError"}
    @@ "InterruptedError" :> {"OSError"}
    @@ "IsADirectoryError" :> {"OSError"}
    @@ "KeyError" :> {"LookupError"}
    @@ "ModuleNotFoundError" :> {"ImportError"}
    @@ "NotADirectoryError" :> {"OSError"}
    @@ "NotImplementedError" :> {"RuntimeError"}
    @@ "OverflowError" :> {"ArithmeticError"}
    @@ "PendingDeprecationWarning" :> {"Warning"}
    @@ "PermissionError" :> {"OSError"}
    @@ "ProcessLookupError" :> {"OSError"}
    @@ "RecursionError" :> {"RuntimeError"}
    @@ "ResourceWarning" :> {"Warning"}
    @@ "RuntimeWarning" :> {"Warning"}
    @@ "SyntaxWarning" :> {"Warning"}
    @@ "TimeoutError" :> {"OSError"}
    @@ "UnboundLocalError" :> {"NameError"}
    @@ "UnicodeError" :> {"ValueError"}
    @@ "UnicodeWarning" :> {"Warning"}
    @@ "UserWarning" :> {"Warning"}
    @@ "ZeroDivisionError" :> {"ArithmeticError"}
    @@ "BrokenPipeError" :> {"ConnectionError"}
    @@ "ConnectionAbortedError" :> {"ConnectionError"}
    @@ "ConnectionRefusedError" :> {"ConnectionError"}
    @@ "ConnectionResetError" :> {"ConnectionError"}
    @@ "TabError" :> {"IndentationError"}
    @@ "UnicodeDecodeError" :> {"UnicodeError"}
    @@ "UnicodeEncodeError" :> {"UnicodeError"}
    @@ "UnicodeTranslateError" :> {"UnicodeError"}
    @@ "asyncio.CancelledError" :> {"BaseException"}
    @@ "json.JSONDecodeError" :> {"ValueError"}
    @@ "requests.RequestException" :> {"OSError"}
    @@ "requests.ConnectionError" :> {"requests.RequestException"}
    @@ "requests.HTTPError" :> {"requests.RequestException"}
    @@ "requests.Timeout" :> {"requests.RequestException"}
    @@ "requests.InvalidJSONError" :> {"requests.RequestException"}
    @@ "requests.JSONDecodeError" :>
           {"requests.InvalidJSONError", "json.JSONDecodeError"}

\* the class and the classes it derives from
RECURSIVE Ancestors(_)
Ancestors(c) == {c} \cup UNION {Ancestors(b) : b \in ClassBases[c]}

\* line 138: except Exception catches the classes that derive from Exception
ExceptHandlerCatches(e) == "Exception" \in Ancestors(e)

\* a primary extraction that does not return
ClarificationAlways(m) == TRUE

\* lines 99-107: the clarification is reached when score_match is None
ClarificationNeeded(m) == m = NoMatch

\* lines 79-105 and 138-140: the primary call and the primary extraction.
\* An exception raised on the way that derives from Exception is handled at
\* line 138; print at line 139 writes str(e) and raises UnicodeEncodeError
\* itself, out of the handler and out of evaluate_image, when the encoding
\* of sys.stdout cannot encode it.  An exception that leaves evaluate_image
\* ends the program with a traceback and the exit status 1.
PrimaryCall ==
    /\ pc = "post"
    /\ calls' = Append(calls, [purpose |-> "primary", max_tokens |-> 1000,
                               images |-> Len(messages) - 1])
    /\ LET r == transport[1]
           printable == Encodable(r.content, stdout_encoding)
           printed == CASE r.kind = "ok" /\ printable ->
                               <<Line("AI Evaluation:", 0), Line("ai_response", 0)>>
                        [] r.kind = "ok" /\ ~printable ->
                               <<Line("AI Evaluation:", 0)>>
                        [] r.kind = "null_content" ->
                               <<Line("AI Evaluation:", 0), Line("ai_response", 0)>>
                        [] OTHER -> <<>>
           exception == IF r.kind = "ok" THEN "UnicodeEncodeError"
                        ELSE ExceptionOf(r.kind)
           reported == Encodable(ErrorText(r), stdout_encoding)
       IN  IF r.kind = "ok" /\ printable
           THEN LET score_match == SearchPrimary(r.content)
                IN  /\ ai_response' = <<r.content>>
                    /\ IF score_match # NoMatch
                       THEN /\ score' = <<ToInt(FirstGroup(score_match))>>
                            /\ stdout' = stdout \o printed \o
                                 <<Line("Extracted score: ",
                                        ToInt(FirstGroup(score_match)))>>
                       ELSE /\ stdout' = stdout \o printed
                            /\ UNCHANGED score
                    /\ pc' = (IF ClarificationNeeded(score_match)
                              THEN "clarify" ELSE "returned")
                    /\ UNCHANGED <<raised, exit_code>>
           ELSE /\ ai_response' = (IF r.kind = "ok" THEN <<r.content>>
                                   ELSE ai_response)
                /\ IF ExceptHandlerCatches(exception) /\ reported
                   THEN /\ stdout' = stdout \o printed \o <<Line("Error: ", 0)>>
                        /\ score' = <<50>>
                        /\ pc' = "returned"
                        /\ UNCHANGED <<raised, exit_code>>
                   ELSE /\ stdout' = stdout \o printed
                        /\ raised' = <<IF ExceptHandlerCatches(exception)
                                       THEN "UnicodeEncodeError"
                                       ELSE exception>>
                        /\ exit_code' = <<1>>
                        /\ pc' = "crashed"
                        /\ UNCHANGED score
    /\ UNCHANGED <<argv, environ, stdout_encoding, transport, image_path,
                   before_image_path, prompt, messages, clarification_text>>

\* lines 108-140: the clarification call and its extraction
ClarificationCall ==
    /\ pc = "clarify"
    /\ calls' = Append(calls, [purpose |-> "clarification", max_tokens |-> 50,
                               images |-> 0])
    /\ LET r == transport[2]
           printable == Encodable(r.content, stdout_encoding)
           printed == CASE r.kind = "ok" /\ printable ->
                               <<Line("AI Clarification:", 0),
                                 Line("clarification_text", 0)>>
                        [] r.kind = "ok" /\ ~printable ->
                               <<Line("AI Clarification:", 0)>>
                        [] r.kind = "null_content" ->
                               <<Line("AI Clarification:", 0),
                                 Line("clarification_text", 0)>>
                        [] OTHER -> <<>>
           exception == IF r.kind = "ok" THEN "UnicodeEncodeError"
                        ELSE ExceptionOf(r.kind)
           reported == Encodable(ErrorText(r), stdout_encoding)
       IN  IF r.kind = "ok" /\ printable
           THEN LET score_match == SearchClarification(r.content)
                    valid == /\ score_match # NoMatch
                             /\ ScoreInRange(ToInt(score_match[1]))
                IN  /\ clarification_text' = <<r.content>>
                    /\ IF valid
                       THEN /\ score' = <<ToInt(score_match[1])>>
                            /\ stdout' = stdout \o printed \o
                                 <<Line("Extracted score from clarification: ",
                                        ToInt(score_match[1]))>>
                       ELSE /\ score' = <<50>>
                            /\ stdout' = stdout \o printed \o
                                 <<Line("Could not extract", 50)>>
                    /\ pc' = "returned"
                    /\ UNCHANGED <<raised, exit_code>>
           ELSE /\ clarification_text' = (IF r.kind = "ok" THEN <<r.content>>
                                          ELSE clarification_text)
                /\ IF ExceptHandlerCatches(exception) /\ reported
                   THEN /\ stdout' = stdout \o printed \o <<Line("Error: ", 0)>>
                        /\ score' = <<50>>
                        /\ pc' = "returned"
                        /\ UNCHANGED <<raised, exit_code>>
                   ELSE /\ stdout' = stdout \o printed
                        /\ raised' = <<IF ExceptHandlerCatches(exception)
                                       THEN "UnicodeEncodeError"
                                       ELSE exception>>
                        /\ exit_code' = <<1>>
                        /\ pc' = "crashed"
                        /\ UNCHANGED score
    /\ UNCHANGED <<argv, environ, stdout_encoding, transport, image_path,
                   before_image_path, prompt, messages, ai_response>>

\* lines 150-153: the two result lines, then the program ends
MainFinish ==
    /\ pc = "returned"
    /\ stdout' = stdout \o <<Line("Final score: ", score[1]),
                             Line("SCORE:", score[1])>>
    /\ exit_code' = <<0>>
    /\ pc' = "exited"
    /\ UNCHANGED <<argv, environ, stdout_encoding, transport, image_path, before_image_path,
                   prompt, messages, calls, ai_response, clarification_text,
                   score, raised>>

Next ==
    \/ MainUsage
    \/ MainCall
    \/ CredentialCheck
    \/ EncodeImage
    \/ EncodeBefore
    \/ PrimaryCall
    \/ ClarificationCall
    \/ MainFinish

Spec == Init /\ [][Next]_vars

\* ------------------------------------------------------------------------
\* Vocabulary of the properties
\* ------------------------------------------------------------------------
\* the credential is unset or empty
KeyAbsent == environ = <<>> \/ environ = <<"">>

\* an image path is given and every image the program reads can be read
ImagesReadable ==
    /\ Len(argv) >= 1
    /\ argv[1] \in Readable
    /\ Len(argv) = 2 /\ argv[2] # "" => argv[2] \in Readable

\* evaluate_image has returned
HasReturned == pc = "returned" \/ (pc = "exited" /\ Len(argv) >= 1)

\* the program has ended
HasEnded == pc \in {"exited", "crashed"}

\* the primary call answered with a text and evaluate_image has returned
PrimaryAnswered ==
    /\ HasReturned
    /\ calls # <<>>
    /\ transport[1].kind = "ok"

\* ... and the text of the primary answer could be printed (line 95)
PrimaryPrinted ==
    /\ PrimaryAnswered
    /\ Encodable(transport[1].content, stdout_encoding)

\* the clarification call answered with a text and evaluate_image has returned
ClarificationAnswered ==
    /\ PrimaryAnswered
    /\ Len(calls) = 2
    /\ transport[2].kind = "ok"

\* stdout ends with "Final score: v" and "SCORE:v" for the same v
EndsWithScoreLines ==
    /\ Len(stdout) >= 2
    /\ stdout[Len(stdout) - 1].tag = "Final score: "
    /\ stdout[Len(stdout)].tag = "SCORE:"
    /\ stdout[Len(stdout) - 1].val = stdout[Len(stdout)].val

\* the maximal runs of ASCII digits of t, as <<start position, end position>>
DigitRuns(t) ==
    {r \in (0..Len(t)) \X (1..Len(t)) :
        /\ r[1] < r[2]
        /\ \A k \in (r[1] + 1)..r[2] : IsDigit(t[k])
        /\ r[1] = 0 \/ ~IsDigit(t[r[1]])
        /\ r[2] = Len(t) \/ ~IsDigit(t[r[2] + 1])}

RunValue(t, r) == ToInt(SubSeq(t, r[1] + 1, r[2]))

\* the plain form <n>/100 with n the k digits after position i, n a whole
\* run of digits to its left
PlainQuotientAt(t, i, k) ==
    /\ DigitsAt(t, i, k)
    /\ i = 0 \/ ~IsDigit(t[i])
    /\ LiteralAt(t, i + k, <<SLASH>> \o Hundred)

\* the positions where an occurrence of the first, of the second pattern starts
QuotientStarts(t) ==
    {i \in 0..Len(t) : MatchQuotient(t, WordFlags(t), i) # NoGroup}
ScoreStarts(t) ==
    {i \in 0..Len(t) : MatchScore(t, WordFlags(t), i) # NoGroup}

Min(S) == CHOOSE x \in S : \A y \in S : x <= y

\* the English forms "score: <n>" and "evaluation: <n>", colon optional
LabelEvaluationEnglish == <<101, 118, 97, 108, 117, 97, 116, 105, 111, 110>>

EnglishForms(t) ==
    {MatchLabelled(t, WordFlags(t), i, l) :
        i \in 0..Len(t), l \in {LabelScoreEnglish, LabelEvaluationEnglish}}
    \ {NoGroup}

\* t holds an English form and no character of the other forms
OnlyEnglishForm(t) ==
    /\ \A k \in 1..Len(t) :
           t[k] \notin {SLASH, FULLWIDTH_SLASH, KATAKANA_SU, KANJI_HYOU, KANJI_TEN}
    /\ EnglishForms(t) # {}

\* "スコア: 70"
JapaneseScore70 == <<KATAKANA_SU, KATAKANA_KO, KATAKANA_A, COLON, SPACE, 55, 48>>

\* ------------------------------------------------------------------------
\* Properties
\* ------------------------------------------------------------------------
\* C1: when OPENAI_API_KEY is unset or empty, no network call is made at
\* any point, evaluate_image never gets past the credential check, and the
\* value it returns is -1, in single-image and in comparison mode.
C1_NoKeyNoCall ==
    KeyAbsent =>
        /\ calls = <<>>
        /\ raised = <<>>
        /\ pc \in {"main", "evaluate_image", "returned", "exited"}
        /\ HasReturned => score = <<-1>>

\* C1 witness: comparison mode, empty key, evaluate_image returned -1
C1_Witness ==
    /\ environ = <<"">>
    /\ Len(argv) = 2
    /\ Truthy(before_image_path)
    /\ pc = "returned"
    /\ score = <<-1>>
    /\ calls = <<>>

\* C2 as stated: with a credential and readable images, a failed primary
\* call ends in the return value 50 after that single call, and a failed
\* clarification call ends in 50 too; no exception leaves evaluate_image.
C2_FailureGivesDefault ==
    Truthy(environ) /\ ImagesReadable =>
        /\ raised = <<>>
        /\ pc # "crashed"
        /\ HasReturned /\ transport[1].kind # "ok" =>
               score = <<50>> /\ Len(calls) = 1
        /\ HasReturned /\ Len(calls) = 2 /\ transport[2].kind # "ok" =>
               score = <<50>>

\* C3 as stated, on the runs it names that are given an image path and
\* either lack the credential or can read every supplied image (the runs
\* that have no missing argument and no file error): the run ends with the
\* two lines "Final score: v" and "SCORE:v" as the last lines of output.
C3_AlwaysScoreLines ==
    HasEnded /\ Len(argv) >= 1 /\ (KeyAbsent \/ ImagesReadable) =>
        EndsWithScoreLines

\* C8: with a credential, when the current image or the before image cannot
\* be read, evaluate_image returns no value, the file error leaves it, and
\* no network call is made.
C8_FileErrorPropagates ==
    Truthy(environ) /\ Len(argv) >= 1 /\ ~ImagesReadable =>
        /\ calls = <<>>
        /\ score = <<>>
        /\ pc \in {"main", "evaluate_image", "encode", "encode_before", "crashed"}
        /\ HasEnded => pc = "crashed" /\ raised = <<"FileNotFoundError">>

\* C8 witness: the current image is missing and the error has left the program
C8_Witness ==
    /\ pc = "crashed"
    /\ image_path = <<"missing.png">>
    /\ Truthy(before_image_path)
    /\ raised = <<"FileNotFoundError">>
    /\ calls = <<>>

\* C9: at most two calls are made, the primary one first; the clarification
\* call is made only after a primary call that answered with a text in
\* which no pattern matched; once a score is extracted or a call has failed
\* evaluate_image is over, and no call is made after it.
C9_CallDiscipline ==
    /\ [](/\ Len(calls) <= 2
          /\ Len(calls) >= 1 => calls[1].purpose = "primary"
          /\ Len(calls) = 2 =>
                 /\ calls[2].purpose = "clarification"
                 /\ transport[1].kind = "ok"
                 /\ Encodable(transport[1].content, stdout_encoding)
                 /\ SearchPrimary(transport[1].content) = NoMatch
          /\ score # <<>> \/ raised # <<>> =>
                 pc \in {"returned", "exited", "crashed"}
          /\ Len(calls) = 1 /\ transport[1].kind # "ok" => pc # "clarify")
    /\ [][(pc \in {"returned", "exited", "crashed"}) => (calls' = calls)]_vars

\* C9 witness: a run that made both calls and ended
C9_Witness ==
    /\ pc = "exited"
    /\ Len(calls) = 2
    /\ calls[2].purpose = "clarification"
    /\ transport[2].kind = "http_error"

\* C10: a returned value is -1 or lies in 0..999; it is -1 exactly when the
\* credential is absent; above 100 it comes from the primary extraction;
\* on the clarification and failure paths it lies in 0..100.
C10_ReturnRange ==
    score # <<>> =>
        /\ score[1] \in ({-1} \cup 0..999)
        /\ score[1] = -1 <=> KeyAbsent
        /\ score[1] > 100 =>
               /\ Len(calls) = 1
               /\ transport[1].kind = "ok"
               /\ Encodable(transport[1].content, stdout_encoding)
               /\ SearchPrimary(transport[1].content) # NoMatch
        /\ Len(calls) = 2 => score[1] \in 0..100
        /\ Len(calls) = 1 /\ transport[1].kind # "ok" => score[1] \in 0..100

\* C10 witness: the primary answer "185/100" is returned as 185
C10_Witness ==
    /\ pc = "returned"
    /\ Len(calls) = 1
    /\ transport[1].content = <<ONE, 56, 53, SLASH, ONE, ZERO, ZERO>>
    /\ score = <<185>>

\* C4: after a primary answer in which no pattern matched, a
\* clarification call is made; a reply with a single integer n in 0..100
\* gives n, a reply with a single integer above 100 or with no integer gives 50.
C4_SingleIntegerReply ==
    /\ PrimaryAnswered /\ SearchPrimary(transport[1].content) = NoMatch =>
           Len(calls) = 2
    /\ ClarificationAnswered =>
           LET t == transport[2].content
               runs == DigitRuns(t)
           IN  /\ runs = {} => score = <<50>>
               /\ Cardinality(runs) = 1 =>
                      LET n == RunValue(t, CHOOSE r \in runs : TRUE)
                      IN  score = <<IF n <= 100 THEN n ELSE 50>>

\* C5 as stated: a primary answer that contains <n>/100 with 0 <= n <= 100
\* gives the score n, whatever surrounds that substring (for an answer that
\* reaches the extraction).
C5_QuotientAnywhere ==
    PrimaryPrinted =>
        LET t == transport[1].content
        IN  \A i \in 0..Len(t), k \in 1..3 :
                PlainQuotientAt(t, i, k) /\ ToInt(SubSeq(t, i + 1, i + k)) <= 100
                    => score = <<ToInt(SubSeq(t, i + 1, i + k))>>

\* C6 as stated: the patterns are tried in the order <n>/100, スコア: <m>,
\* 評価: <k>, <j>点 and the first that matches anywhere wins: an answer with
\* an occurrence of <n>/100 and an occurrence of スコア: <m> gives n,
\* wherever the two occurrences stand (for an answer that reaches the
\* extraction).
C6_QuotientBeatsScore ==
    PrimaryPrinted =>
        LET t == transport[1].content
        IN  QuotientStarts(t) # {} /\ ScoreStarts(t) # {} =>
                score = <<ToInt(MatchQuotient(t, WordFlags(t),
                                              Min(QuotientStarts(t))))>>

\* C7 as stated: a primary answer whose only score indication is the
\* English form score: <n> or evaluation: <n> gives n from the primary
\* answer, without a clarification call.
C7_EnglishAccepted ==
    PrimaryAnswered /\ OnlyEnglishForm(transport[1].content) =>
        /\ Len(calls) = 1
        /\ score \in {<<ToInt(g)>> : g \in EnglishForms(transport[1].content)}

\* C7 amended: a primary answer whose only score indication is the English
\* form score: <n> or evaluation: <n> is not accepted by the primary
\* extractor: no score is extracted from it and a clarification call is
\* made, the final score being the clarified one or 50; only the Japanese
\* forms are accepted, スコア: 70 giving 70 without a clarification call
\* (both for an answer that can be printed on stdout).
C7_EnglishNotAccepted ==
    /\ PrimaryPrinted /\ OnlyEnglishForm(transport[1].content) =>
           /\ Len(calls) = 2
           /\ \A k \in 1..Len(stdout) : stdout[k].tag # "Extracted score: "
           /\ score[1] \in 0..100
    /\ PrimaryPrinted /\ transport[1].content = JapaneseScore70 =>
           Len(calls) = 1 /\ score = <<70>>

\* C7 witness: "score: 30" led to a clarification call that gave 72
C7_Witness ==
    /\ pc = "returned"
    /\ transport[1].content = LabelScoreEnglish \o <<COLON, SPACE, 51, 48>>
    /\ Len(calls) = 2
    /\ transport[2].kind = "ok"
    /\ score = <<72>>

====
